---- MODULE Spec2Model ----
(***************************************************************************)
(* Model of the archive-metadata-tools scripts (analyze_metadata.py and    *)
(* its companions).  Python strings are TLA+ strings; a character is a     *)
(* one-character string obtained with SubSeq.  The Python value None is    *)
(* the sentinel None below, which is distinct from every string the model  *)
(* feeds to the program.                                                   *)
(***************************************************************************)
EXTENDS Integers, Sequences, FiniteSets, TLC

VARIABLES
    pc,         \* position of the running script
    date_str,   \* argument of the current MetadataAnalyzer.standardize_date call
    std_out,    \* value returned by that call
    std_calls,  \* number of standardize_date calls made so far
    text,       \* argument of MetadataAnalyzer.extract_date_from_title
    scan_out,   \* value returned by extract_date_from_title
    items,      \* MetadataAnalyzer.items: the fetched records
    issues,     \* MetadataAnalyzer.issues: the IssueRecords found
    ret,        \* the extractor called on text and the value it returned
    report,     \* content of metadata_issues.json
    script,     \* the script whose batch loop is running
    cursor,     \* index of the loop of the batch over its issues
    log,        \* the update requests made to Archive.org, begun and ended,
                \* and the items found already correct
    success_count,  \* success_count of the batch loop
    error_count,    \* error_count of the batch loop
    mismatches,     \* content of date_mismatches.json
    identifiers,    \* the items delete_bad_flyer_files is called with
    flyer_log,      \* the file listings fetched and the deletes issued
    bad_flyer_files \* the bad flyer files of the current item still to delete

\* the variables of a batch run
runVars == <<report, script, cursor, log, success_count, error_count, mismatches>>

\* the variables of a flyer cleanup
flyerVars == <<identifiers, flyer_log, bad_flyer_files>>

vars == <<pc, date_str, std_out, std_calls, text, scan_out, items, issues, ret, runVars, flyerVars>>

None == "<None>"

\* no extractor has been called
NoCall == ret = [fn |-> None, value |-> None]

\* no batch has started and no report has been written
NoRun ==
    /\ report = None
    /\ script = None
    /\ cursor = 0
    /\ log = <<>>
    /\ success_count = 0
    /\ error_count = 0
    /\ mismatches = None

\* no flyer cleanup has started
NoFlyers ==
    /\ identifiers = <<>>
    /\ flyer_log = <<>>
    /\ bad_flyer_files = <<>>

(***************************************************************************)
(* Characters and the character classes of Python's re module.             *)
(***************************************************************************)
Ch(s, i) == IF i >= 1 /\ i <= Len(s) THEN SubSeq(s, i, i) ELSE ""

\* the slice s[i-1:j] of Python, for 1-based inclusive positions (clamped)
Sub(s, i, j) ==
    LET a == IF i < 1 THEN 1 ELSE i
        b == IF j > Len(s) THEN Len(s) ELSE j
    IN  IF a > b THEN "" ELSE SubSeq(s, a, b)

\* \d
Digits == {"0", "1", "2", "3", "4", "5", "6", "7", "8", "9"}

IsDigit(c) == c \in Digits

\* \s of a str pattern, and the characters str.strip() removes: space, tab,
\* newline, vertical tab (code 11), form feed, carriage return and the four
\* separators with codes 28..31 (the literals below hold those characters)
Spaces == {" ", "\t", "\n", "", "\f", "\r", "", "", "", ""}

IsSpace(c) == c \in Spaces

Lower == {"a", "b", "c", "d", "e", "f", "g", "h", "i", "j", "k", "l", "m",
          "n", "o", "p", "q", "r", "s", "t", "u", "v", "w", "x", "y", "z"}

\* the lower-case letter of each upper-case letter
UpperToLower ==
    [c \in {"A", "B", "C", "D", "E", "F", "G", "H", "I", "J", "K", "L", "M",
            "N", "O", "P", "Q", "R", "S", "T", "U", "V", "W", "X", "Y", "Z"} |->
        CASE c = "A" -> "a" [] c = "B" -> "b" [] c = "C" -> "c" [] c = "D" -> "d"
          [] c = "E" -> "e" [] c = "F" -> "f" [] c = "G" -> "g" [] c = "H" -> "h"
          [] c = "I" -> "i" [] c = "J" -> "j" [] c = "K" -> "k" [] c = "L" -> "l"
          [] c = "M" -> "m" [] c = "N" -> "n" [] c = "O" -> "o" [] c = "P" -> "p"
          [] c = "Q" -> "q" [] c = "R" -> "r" [] c = "S" -> "s" [] c = "T" -> "t"
          [] c = "U" -> "u" [] c = "V" -> "v" [] c = "W" -> "w" [] c = "X" -> "x"
          [] c = "Y" -> "y" [] c = "Z" -> "z"]

LowerOf(c) == IF c \in DOMAIN UpperToLower THEN UpperToLower[c] ELSE c

\* \w of re: letters, digits and the underscore
IsWord(c) == LowerOf(c) \in Lower \/ IsDigit(c) \/ c = "_"

\* str.lower()
RECURSIVE lower(_)
lower(s) == IF s = "" THEN "" ELSE LowerOf(Ch(s, 1)) \o lower(Sub(s, 2, Len(s)))

\* \d{n} at position i
DigitsAt(s, i, n) == \A k \in 0..(n - 1) : IsDigit(Ch(s, i + k))

\* \s{n} at position i
SpacesAt(s, i, n) == \A k \in 0..(n - 1) : IsSpace(Ch(s, i + k))

\* $ without re.MULTILINE: the end of the string, or just before a final newline
AtDollar(s, i) == i = Len(s) + 1 \/ (i = Len(s) /\ Ch(s, i) = "\n")

\* str.strip()
RECURSIVE lstrip(_)
lstrip(s) == IF s # "" /\ IsSpace(Ch(s, 1)) THEN lstrip(Sub(s, 2, Len(s))) ELSE s

RECURSIVE rstrip(_)
rstrip(s) == IF s # "" /\ IsSpace(Ch(s, Len(s))) THEN rstrip(Sub(s, 1, Len(s) - 1)) ELSE s

strip(s) == rstrip(lstrip(s))

\* str.zfill(2)
zfill2(s) == IF Len(s) >= 2 THEN s ELSE IF Len(s) = 1 THEN "0" \o s ELSE "00"

\* str.endswith
endswith(s, suffix) ==
    Len(s) >= Len(suffix) /\ Sub(s, Len(s) - Len(suffix) + 1, Len(s)) = suffix

\* bool(x) of an optional string: None and "" are falsy
Truthy(x) == x # None /\ x # ""

(***************************************************************************)
(* Integers and their decimal text: int(), and the :02d / :04d formats.    *)
(***************************************************************************)
DigitVal(c) ==
    CASE c = "0" -> 0 [] c = "1" -> 1 [] c = "2" -> 2 [] c = "3" -> 3
      [] c = "4" -> 4 [] c = "5" -> 5 [] c = "6" -> 6 [] c = "7" -> 7
      [] c = "8" -> 8 [] c = "9" -> 9

DigitChar(d) ==
    CASE d = 0 -> "0" [] d = 1 -> "1" [] d = 2 -> "2" [] d = 3 -> "3"
      [] d = 4 -> "4" [] d = 5 -> "5" [] d = 6 -> "6" [] d = 7 -> "7"
      [] d = 8 -> "8" [] d = 9 -> "9"

RECURSIVE ToInt(_)
ToInt(s) == IF s = "" THEN 0 ELSE 10 * ToInt(Sub(s, 1, Len(s) - 1)) + DigitVal(Ch(s, Len(s)))

RECURSIVE Decimal(_)
Decimal(n) == IF n < 10 THEN DigitChar(n) ELSE Decimal(n \div 10) \o DigitChar(n % 10)

RECURSIVE PadLeft(_, _)
PadLeft(s, w) == IF Len(s) >= w THEN s ELSE PadLeft("0" \o s, w)

\* f'{n:0wd}'
Fmt(n, w) == PadLeft(Decimal(n), w)

(***************************************************************************)
(* MetadataAnalyzer.standardize_date                                       *)
(***************************************************************************)
\* (\d{1,2})SEP(\d{1,2})SEP(\d{ylen}) at position i: the three groups, or
\* <<>> for no match (the separators make the split unique)
GroupsAt(s, i, sep, ylen) ==
    LET fits(la, lb) ==
            /\ DigitsAt(s, i, la)
            /\ Ch(s, i + la) = sep
            /\ DigitsAt(s, i + la + 1, lb)
            /\ Ch(s, i + la + lb + 1) = sep
            /\ DigitsAt(s, i + la + lb + 2, ylen)
        ok == {p \in {<<2, 2>>, <<2, 1>>, <<1, 2>>, <<1, 1>>} : fits(p[1], p[2])}
    IN  IF ~IsDigit(Ch(s, i)) \/ ok = {} THEN <<>>
        ELSE LET p == CHOOSE q \in ok : TRUE
             IN  << Sub(s, i, i + p[1] - 1),
                    Sub(s, i + p[1] + 1, i + p[1] + p[2]),
                    Sub(s, i + p[1] + p[2] + 2, i + p[1] + p[2] + 1 + ylen) >>

\* ^(\d{1,2})SEP(\d{1,2})SEP(\d{ylen})$ : the three groups, or <<>> for no match
NumSepNum(s, sep, ylen) ==
    LET g == GroupsAt(s, 1, sep, ylen)
    IN  IF g # <<>> /\ AtDollar(s, Len(g[1]) + Len(g[2]) + ylen + 3) THEN g ELSE <<>>

\* \d{4}-\d{2}-\d{2} at position i
IsoAt(s, i) ==
    /\ DigitsAt(s, i, 4)
    /\ Ch(s, i + 4) = "-"
    /\ DigitsAt(s, i + 5, 2)
    /\ Ch(s, i + 7) = "-"
    /\ DigitsAt(s, i + 8, 2)

\* full_year = f"20{year}"
full_year_pivot(year) == IF ToInt(year) >= 69 THEN "19" \o year ELSE "20" \o year

full_year(year) == "20" \o year

\* f"{year}-{month.zfill(2)}-{day.zfill(2)}"
FormatYMD(year, month, day) == year \o "-" \o zfill2(month) \o "-" \o zfill2(day)

\* month, day, year = match.groups()   (the slash forms)
SlashGroups(g) == [month |-> g[1], day |-> g[2], year |-> g[3]]

\* day, month, year = match.groups()   (the dot forms)
DotGroups_monthfirst(g) == [month |-> g[1], day |-> g[2], year |-> g[3]]

DotGroups(g) == [day |-> g[1], month |-> g[2], year |-> g[3]]

\* iso_date_match.group(1) of ^(\d{4}-\d{2}-\d{2})T
IsoDatePart_yearonly(d) == Sub(d, 1, 4)

IsoDatePart(d) == Sub(d, 1, 10)

standardize_date(d) ==
    LET mmddyy == NumSepNum(d, "/", 2)
        mmddyyyy == NumSepNum(d, "/", 4)
        ddmmyy == NumSepNum(d, ".", 2)
        ddmmyyyy == NumSepNum(d, ".", 4)
    IN  IF ~Truthy(d) THEN d
        ELSE IF mmddyy # <<>> THEN
            LET g == SlashGroups(mmddyy) IN FormatYMD(full_year(g.year), g.month, g.day)
        ELSE IF mmddyyyy # <<>> THEN
            LET g == SlashGroups(mmddyyyy) IN FormatYMD(g.year, g.month, g.day)
        ELSE IF ddmmyy # <<>> THEN
            LET g == DotGroups(ddmmyy) IN FormatYMD(full_year(g.year), g.month, g.day)
        ELSE IF ddmmyyyy # <<>> THEN
            LET g == DotGroups(ddmmyyyy) IN FormatYMD(g.year, g.month, g.day)
        ELSE IF IsoAt(d, 1) /\ Ch(d, 11) = "T" THEN IsoDatePart(d)
        ELSE IF IsoAt(d, 1) /\ AtDollar(d, 11) THEN d
        ELSE IF DigitsAt(d, 1, 4) /\ AtDollar(d, 5) THEN d \o "-01-01"
        ELSE d

(***************************************************************************)
(* MetadataAnalyzer.extract_date_from_title                                *)
(***************************************************************************)
IsLeap(year) == year % 4 = 0 /\ (year % 100 # 0 \/ year % 400 = 0)

DaysInMonth(year, month) ==
    IF month = 2 THEN (IF IsLeap(year) THEN 29 ELSE 28)
    ELSE IF month \in {4, 6, 9, 11} THEN 30 ELSE 31

\* datetime.strptime's %y: 00..68 are 2000..2068, 69..99 are 1969..1999
strptime_y_always20(yy) == 2000 + yy

strptime_y(yy) == IF yy <= 68 THEN 2000 + yy ELSE 1900 + yy

\* datetime.strptime on digit groups already split by the separators: the
\* date <<year, month, day>>, or <<>> when strptime raises ValueError
strptime(year, month, day) ==
    IF /\ year >= 1
       /\ month \in 1..12
       /\ day >= 1
       /\ day <= DaysInMonth(year, month)
    THEN <<year, month, day>>
    ELSE <<>>

\* a ValueError that leaves the call uncaught, as the outcome of the call
ValueError == "<ValueError>"

\* f'{parsed.year:04d}-{parsed.month:02d}-{parsed.day:02d}'; after a ValueError
\* of strptime the except clause continues with the next pattern (None)
FormatParsed_uncaught(parsed) ==
    IF parsed = <<>> THEN ValueError
    ELSE Fmt(parsed[1], 4) \o "-" \o Fmt(parsed[2], 2) \o "-" \o Fmt(parsed[3], 2)

FormatParsed(parsed) ==
    IF parsed = <<>> THEN None
    ELSE Fmt(parsed[1], 4) \o "-" \o Fmt(parsed[2], 2) \o "-" \o Fmt(parsed[3], 2)

\* the patterns of extract_date_from_title, in their order
NumPatterns == 6

IsoHere(s, i) == IsoAt(s, i)

Slash4Here(s, i) == GroupsAt(s, i, "/", 4) # <<>>

Dot4Here(s, i) == GroupsAt(s, i, ".", 4) # <<>>

Slash2Here(s, i) == GroupsAt(s, i, "/", 2) # <<>>

Dot2Here(s, i) == GroupsAt(s, i, ".", 2) # <<>>

YearHere(s, i) == DigitsAt(s, i, 4)

\* pattern k of the list matches at position i
PatternHere(s, k, i) ==
    CASE k = 1 -> IsoHere(s, i)
      [] k = 2 -> Slash4Here(s, i)
      [] k = 3 -> Dot4Here(s, i)
      [] k = 4 -> Slash2Here(s, i)
      [] k = 5 -> Dot2Here(s, i)
      [] k = 6 -> YearHere(s, i)

\* re.search: the leftmost position where pattern k matches, 0 for no match
PatternPos_rightmost(title, k) ==
    LET hits == {i \in 1..Len(title) : PatternHere(title, k, i)}
    IN  IF hits = {} THEN 0 ELSE CHOOSE i \in hits : \A j \in hits : i >= j

PatternPos(title, k) ==
    LET hits == {i \in 1..Len(title) : PatternHere(title, k, i)}
    IN  IF hits = {} THEN 0 ELSE CHOOSE i \in hits : \A j \in hits : i <= j

\* the digit groups <<first, second, year>> of pattern k's match at position i
\* (for the ISO pattern <<month, day, year>>)
PatternGroups(title, k, i) ==
    CASE k = 1 -> << Sub(title, i + 5, i + 6), Sub(title, i + 8, i + 9), Sub(title, i, i + 3) >>
      [] k = 2 -> GroupsAt(title, i, "/", 4)
      [] k = 3 -> GroupsAt(title, i, ".", 4)
      [] k = 4 -> GroupsAt(title, i, "/", 2)
      [] k = 5 -> GroupsAt(title, i, ".", 2)
      [] k = 6 -> << "", "", Sub(title, i, i + 3) >>

\* the body of the loop for pattern k: the value returned, or None when the
\* pattern does not match or strptime raises ValueError (continue)
TryPattern(title, k) ==
    LET i == PatternPos(title, k)
        g == PatternGroups(title, k, i)
    IN  IF i = 0 THEN None
        ELSE IF k = 6 THEN g[3] \o "-01-01"
        ELSE IF k \in {4, 5} THEN
            FormatParsed(strptime(strptime_y(ToInt(g[3])), ToInt(g[1]), ToInt(g[2])))
        ELSE FormatParsed(strptime(ToInt(g[3]), ToInt(g[1]), ToInt(g[2])))

\* the loop over the patterns from the k-th on: the index of the first
\* pattern that returns a value, 0 for none
RECURSIVE SuccessFrom(_, _)
SuccessFrom(title, k) ==
    IF k > NumPatterns THEN 0
    ELSE IF TryPattern(title, k) # None THEN k
    ELSE SuccessFrom(title, k + 1)

FirstSuccess(title) == SuccessFrom(title, 1)

\* the loop over the patterns from the k-th on: the first value returned
RECURSIVE ScanFrom(_, _)
ScanFrom(title, k) ==
    IF k > NumPatterns THEN None
    ELSE LET r == TryPattern(title, k)
         IN  IF r # None THEN r ELSE ScanFrom(title, k + 1)

extract_date_from_title(title) ==
    IF ~Truthy(title) THEN None ELSE ScanFrom(title, 1)

(***************************************************************************)
(* MetadataAnalyzer.extract_band_from_title                                *)
(***************************************************************************)
Min(S) == CHOOSE x \in S : \A y \in S : x <= y

Max(S) == CHOOSE x \in S : \A y \in S : x >= y

\* the length of the run of whitespace that starts at position i
RECURSIVE SpaceRun(_, _)
SpaceRun(s, i) == IF IsSpace(Ch(s, i)) THEN 1 + SpaceRun(s, i + 1) ELSE 0

\* \s+WORD\s+\d at position j (case-sensitive)
WsWordWsDigit(s, j, word) ==
    \E a \in 1..SpaceRun(s, j) :
        /\ Sub(s, j + a, j + a + Len(word) - 1) = word
        /\ \E b \in 1..SpaceRun(s, j + a + Len(word)) :
                IsDigit(Ch(s, j + a + Len(word) + b))

\* group(1) of ^([^@]+?)\s*@ , "" for no match
BandBeforeAt(title) ==
    LET ends == {k \in 1..Len(title) :
                    /\ Ch(title, k + 1 + SpaceRun(title, k + 1)) = "@"
                    /\ \A j \in 1..k : Ch(title, j) # "@"}
    IN  IF ends = {} THEN "" ELSE Sub(title, 1, Min(ends))

\* group(1) of ^(.+?)\s+WORD\s+\d , "" for no match
BandBeforeWord(title, word) ==
    LET ends == {k \in 1..Len(title) :
                    /\ WsWordWsDigit(title, k + 1, word)
                    /\ \A j \in 1..k : Ch(title, j) # "\n"}
    IN  IF ends = {} THEN "" ELSE Sub(title, 1, Min(ends))

\* match.group(1) of the k-th pattern of extract_band_from_title
BandGroup(title, k) ==
    CASE k = 1 -> BandBeforeAt(title)
      [] k = 2 -> BandBeforeWord(title, "on")
      [] k = 3 -> BandBeforeWord(title, "in")

NumBandPatterns == 3

BandStoplist == {"live", "show", "concert", "performance"}

\* the filter on a candidate band name
BandAccepted_nostoplist(band_name) == Len(band_name) > 2

BandAccepted(band_name) == Len(band_name) > 2 /\ lower(band_name) \notin BandStoplist

\* the loop over the patterns from the k-th on: the first accepted candidate
RECURSIVE BandFrom(_, _)
BandFrom(title, k) ==
    IF k > NumBandPatterns THEN None
    ELSE LET band_name == strip(BandGroup(title, k))
         IN  IF BandGroup(title, k) # "" /\ BandAccepted(band_name) THEN band_name
             ELSE BandFrom(title, k + 1)

extract_band_from_title(title) ==
    IF ~Truthy(title) THEN None ELSE BandFrom(title, 1)

(***************************************************************************)
(* MetadataAnalyzer.extract_venue_from_title (every pattern under re.I)    *)
(***************************************************************************)
\* the delimiter of a family matched at position i: the position just after
\* it, 0 when it does not match there.  Families: @ , \bat , live\s+at
DelimEnd(s, i, fam) ==
    CASE fam = "@" -> IF Ch(s, i) = "@" THEN i + 1 ELSE 0
      [] fam = "at" ->
            IF /\ LowerOf(Ch(s, i)) = "a"
               /\ lower(Sub(s, i, i + 1)) = "at"
               /\ ~IsWord(Ch(s, i - 1))
            THEN i + 2 ELSE 0
      [] fam = "live at" ->
            LET run == SpaceRun(s, i + 4)
            IN  IF /\ LowerOf(Ch(s, i)) = "l"
                   /\ lower(Sub(s, i, i + 3)) = "live"
                   /\ run >= 1
                   /\ lower(Sub(s, i + 4 + run, i + 5 + run)) = "at"
                THEN i + 6 + run ELSE 0

\* what must follow the group, at position e: \s*\( for the parenthesis
\* variant, (?:\s+on\s|\s+\[|\s+\d{4}|$) for the fallback variant
TermAt_noon(s, e, variant) ==
    IF variant = "paren"
    THEN \E t \in 0..SpaceRun(s, e) : Ch(s, e + t) = "("
    ELSE \/ \E t \in 1..SpaceRun(s, e) :
                \/ Ch(s, e + t) = "["
                \/ DigitsAt(s, e + t, 4)
         \/ AtDollar(s, e)

TermAt(s, e, variant) ==
    IF variant = "paren"
    THEN \E t \in 0..SpaceRun(s, e) : Ch(s, e + t) = "("
    ELSE \/ \E t \in 1..SpaceRun(s, e) :
                \/ lower(Sub(s, e + t, e + t + 1)) = "on" /\ IsSpace(Ch(s, e + t + 2))
                \/ Ch(s, e + t) = "["
                \/ DigitsAt(s, e + t, 4)
         \/ AtDollar(s, e)

\* a character of the group: [^(] for the parenthesis variant, . for the fallback
GroupChar(c, variant) ==
    c # "" /\ (IF variant = "paren" THEN c # "(" ELSE c # "\n")

\* the lazy group starting at position a: its last position, 0 for no match
GroupEnd(s, a, variant) ==
    LET ends == {e \in a..Len(s) :
                    /\ TermAt(s, e + 1, variant)
                    /\ \A j \in a..e : GroupChar(Ch(s, j), variant)}
    IN  IF ends = {} THEN 0 ELSE Min(ends)

\* group(1) of the match that starts at position i, "" for no match there;
\* the greedy \s+ after the delimiter gives whitespace back only when it must
VenueGroupAt(s, i, fam, variant) ==
    LET d == DelimEnd(s, i, fam)
        ws == {w \in 1..SpaceRun(s, d) : GroupEnd(s, d + w, variant) # 0}
    IN  IF d = 0 \/ ws = {} THEN ""
        ELSE Sub(s, d + Max(ws), GroupEnd(s, d + Max(ws), variant))

\* re.search: group(1) of the leftmost match, "" for no match
VenueSearch(s, fam, variant) ==
    LET hits == {i \in 1..Len(s) :
                    DelimEnd(s, i, fam) # 0 /\ VenueGroupAt(s, i, fam, variant) # ""}
    IN  IF hits = {} THEN "" ELSE VenueGroupAt(s, Min(hits), fam, variant)

\* re.sub(r'\s*\([^)]*\)', '', venue)
RECURSIVE RemoveParens(_)
RemoveParens(s) ==
    LET opens == {q \in 1..Len(s) : Ch(s, q) = "("}
        q == Min(opens)
        closes == {r \in (q + 1)..Len(s) : Ch(s, r) = ")"}
        r == Min(closes)
        lead == Max({n \in 0..(q - 1) : \A j \in (q - n)..(q - 1) : IsSpace(Ch(s, j))})
    IN  IF opens = {} THEN s
        ELSE IF closes = {} THEN s
        ELSE Sub(s, 1, q - lead - 1) \o RemoveParens(Sub(s, r + 1, Len(s)))

\* the six venue patterns in their order: <<family, variant>>
VenuePatterns_fallbackfirst ==
    << <<"@", "fallback">>, <<"@", "paren">>, <<"at", "fallback">>, <<"at", "paren">>,
       <<"live at", "fallback">>, <<"live at", "paren">> >>

VenuePatterns ==
    << <<"@", "paren">>, <<"@", "fallback">>, <<"at", "paren">>, <<"at", "fallback">>,
       <<"live at", "paren">>, <<"live at", "fallback">> >>

\* the candidate of the k-th pattern: the group stripped, without its
\* parenthesized parts, stripped again; "" when the pattern does not match
VenueCandidate(title, k) ==
    LET g == VenueSearch(title, VenuePatterns[k][1], VenuePatterns[k][2])
    IN  IF g = "" THEN "" ELSE strip(RemoveParens(strip(g)))

\* the loop over the patterns from the k-th on: the first accepted candidate
RECURSIVE VenueFrom(_, _)
VenueFrom(title, k) ==
    IF k > Len(VenuePatterns) THEN None
    ELSE LET venue == VenueCandidate(title, k)
         IN  IF Len(venue) > 2 THEN venue ELSE VenueFrom(title, k + 1)

extract_venue_from_title(title) ==
    IF ~Truthy(title) THEN None ELSE VenueFrom(title, 1)

(***************************************************************************)
(* MetadataAnalyzer.analyze_items                                          *)
(***************************************************************************)
\* date_to_check = date or publicdate
EffectiveDate_primaryonly(item) == item.date

EffectiveDate(item) == IF Truthy(item.date) THEN item.date ELSE item.publicdate

\* the branch for a missing date, given the date found in the title:
\* <<issue, suggestion>>, or <<>> for no issue
MissingDateRule(suggested_date) ==
    IF Truthy(suggested_date) THEN <<"missing_date", suggested_date>> ELSE <<>>

MissingDateDecision(title) == MissingDateRule(extract_date_from_title(title))

\* the branch for a present date, given its standardized form and the date
\* found in the title: <<issue, suggestion>>, or <<>> for no issue
PresentDateRule_suggeststored(date_to_check, standardized_date, title_date) ==
    IF /\ Truthy(title_date)
       /\ endswith(standardized_date, "-01-01")
       /\ ~endswith(title_date, "-01-01")
    THEN (IF standardized_date # title_date
          THEN <<"bad_date_format", standardized_date>> ELSE <<>>)
    ELSE IF standardized_date # date_to_check
    THEN <<"bad_date_format", standardized_date>>
    ELSE <<>>

PresentDateRule_noformatfix(date_to_check, standardized_date, title_date) ==
    IF /\ Truthy(title_date)
       /\ endswith(standardized_date, "-01-01")
       /\ ~endswith(title_date, "-01-01")
    THEN (IF standardized_date # title_date
          THEN <<"bad_date_format", title_date>> ELSE <<>>)
    ELSE IF standardized_date # date_to_check /\ endswith(date_to_check, "Z")
    THEN <<"bad_date_format", standardized_date>>
    ELSE <<>>

PresentDateRule_titlealwayswins(date_to_check, standardized_date, title_date) ==
    IF /\ Truthy(title_date)
       /\ ~endswith(title_date, "-01-01")
    THEN (IF standardized_date # title_date
          THEN <<"bad_date_format", title_date>> ELSE <<>>)
    ELSE IF standardized_date # date_to_check
    THEN <<"bad_date_format", standardized_date>>
    ELSE <<>>

PresentDateRule(date_to_check, standardized_date, title_date) ==
    IF /\ Truthy(title_date)
       /\ endswith(standardized_date, "-01-01")
       /\ ~endswith(title_date, "-01-01")
    THEN (IF standardized_date # title_date
          THEN <<"bad_date_format", title_date>> ELSE <<>>)
    ELSE IF standardized_date # date_to_check
    THEN <<"bad_date_format", standardized_date>>
    ELSE <<>>

PresentDateDecision(date_to_check, title) ==
    PresentDateRule(date_to_check, standardize_date(date_to_check),
                    extract_date_from_title(title))

\* the suggestions dict: the keys that were set and their values
SuggestionsOf(suggested_band, suggested_venue, dateFix) ==
    [k \in (IF Truthy(suggested_band) THEN {"band"} ELSE {})
            \cup (IF Truthy(suggested_venue) THEN {"venue"} ELSE {})
            \cup (IF dateFix # <<>> THEN {"date"} ELSE {}) |->
        CASE k = "band" -> suggested_band
          [] k = "venue" -> suggested_venue
          [] k = "date" -> dateFix[2]]

\* the issues list, in the order the code appends to it
IssueTagsOf(suggested_band, suggested_venue, dateFix) ==
    (IF Truthy(suggested_band) THEN <<"missing_band">> ELSE <<>>)
        \o (IF Truthy(suggested_venue) THEN <<"missing_venue">> ELSE <<>>)
        \o (IF dateFix # <<>> THEN <<dateFix[1]>> ELSE <<>>)

\* if issues: self.issues.append({...})
IssueRecordOf_keepall(item, date_to_check, found, suggestions) ==
    << [ identifier |-> item.identifier,
         title |-> item.title,
         current |-> [band |-> item.band, venue |-> item.venue,
                      date |-> date_to_check],
         issues |-> found,
         suggestions |-> suggestions ] >>

IssueRecordOf(item, date_to_check, found, suggestions) ==
    IF found = <<>> THEN <<>>
    ELSE << [ identifier |-> item.identifier,
              title |-> item.title,
              current |-> [band |-> item.band, venue |-> item.venue,
                           date |-> date_to_check],
              issues |-> found,
              suggestions |-> suggestions ] >>

\* the three checks of one item, collected
CollectIssues(item, date_to_check, suggested_band, suggested_venue, dateFix) ==
    IssueRecordOf(item, date_to_check,
                  IssueTagsOf(suggested_band, suggested_venue, dateFix),
                  SuggestionsOf(suggested_band, suggested_venue, dateFix))

\* the date check of one item
DateDecision(date_to_check, title) ==
    IF ~Truthy(date_to_check)
    THEN MissingDateDecision(title)
    ELSE PresentDateDecision(date_to_check, title)

\* the body of the loop of analyze_items for one item: the sequence of
\* IssueRecords it appends to self.issues (none or one)
AnalyzeItem(item) ==
    CollectIssues(item, EffectiveDate(item),
                  IF Truthy(item.band) THEN None ELSE extract_band_from_title(item.title),
                  IF Truthy(item.venue) THEN None ELSE extract_venue_from_title(item.title),
                  DateDecision(EffectiveDate(item), item.title))

\* the loop of analyze_items over a list of items
RECURSIVE AnalyzeAll(_)
AnalyzeAll(list) ==
    IF list = <<>> THEN <<>> ELSE AnalyzeItem(Head(list)) \o AnalyzeAll(Tail(list))

(***************************************************************************)
(* MetadataAnalyzer.sort_issues_by_type                                    *)
(***************************************************************************)
\* the characters of an Archive.org identifier, in code point order
IdentifierChars == "-.0123456789ABCDEFGHIJKLMNOPQRSTUVWXYZ_abcdefghijklmnopqrstuvwxyz"

\* the rank of a character in that order (the order of ord(c))
Ord(c) == CHOOSE i \in 1..Len(IdentifierChars) : Ch(IdentifierChars, i) = c

\* a < b on str: the first differing character decides, a proper prefix is smaller
RECURSIVE StrLess(_, _)
StrLess(a, b) ==
    IF b = "" THEN FALSE
    ELSE IF a = "" THEN TRUE
    ELSE IF Ch(a, 1) = Ch(b, 1) THEN StrLess(Sub(a, 2, Len(a)), Sub(b, 2, Len(b)))
    ELSE Ord(Ch(a, 1)) < Ord(Ch(b, 1))

\* issues = set(issue['issues'])
IssueSet(issue) == {issue.issues[i] : i \in 1..Len(issue.issues)}

\* the first component of get_sort_key
SortTier(tags) ==
    IF tags = {"bad_date_format"} THEN 1
    ELSE IF "missing_band" \in tags /\ "missing_venue" \in tags THEN 2
    ELSE IF "missing_band" \in tags /\ "bad_date_format" \in tags THEN 3
    ELSE IF "missing_venue" \in tags /\ "bad_date_format" \in tags THEN 4
    ELSE IF tags = {"missing_band"} THEN 5
    ELSE IF tags = {"missing_venue"} THEN 6
    ELSE 7

get_sort_key(issue) == <<SortTier(IssueSet(issue)), issue.identifier>>

\* k1 < k2 on the tuples (tier, identifier)
KeyLess_descending(k1, k2) ==
    k1[1] < k2[1] \/ (k1[1] = k2[1] /\ StrLess(k2[2], k1[2]))

KeyLess(k1, k2) ==
    k1[1] < k2[1] \/ (k1[1] = k2[1] /\ StrLess(k1[2], k2[2]))

\* list.sort is stable: x goes behind every element whose key is not greater
RECURSIVE InsertByKey(_, _)
InsertByKey(x, sorted) ==
    IF sorted = <<>> THEN <<x>>
    ELSE IF KeyLess(get_sort_key(x), get_sort_key(Head(sorted)))
    THEN <<x>> \o sorted
    ELSE <<Head(sorted)>> \o InsertByKey(x, Tail(sorted))

\* self.issues.sort(key=get_sort_key), on the first n elements of the list
RECURSIVE SortPrefix(_, _)
SortPrefix(list, n) ==
    IF n = 0 THEN <<>> ELSE InsertByKey(list[n], SortPrefix(list, n - 1))

SortedByType(list) == SortPrefix(list, Len(list))

(***************************************************************************)
(* MetadataAnalyzer.save_issues_report / fix_metadata_issues and           *)
(* MetadataFixerIA.apply_all_fixes: the batch of update requests           *)
(***************************************************************************)
\* save_issues_report: self.sort_issues_by_type() before json.dump
ReportOf_unsorted(list) == list

ReportOf(list) == SortedByType(list)

\* the list the loop of the running script goes over: self.issues in
\* analyze_metadata.py, the loaded report in apply_metadata_fixes.py
Batch == IF script = "apply_metadata_fixes" THEN report ELSE issues

\* metadata_updates: the band, venue and date entries of the suggestions
MetadataUpdates(suggestions) ==
    [k \in DOMAIN suggestions \cap {"band", "venue", "date"} |-> suggestions[k]]

\* what an update request can come to: requests.post / modify_metadata
\* answers success, answers a rejection, or raises
Outcomes == {"success", "rejected", "raised"}

\* update_archive_metadata / update_archive_metadata_ia return True only
\* for a success; a rejection returns False and an exception is caught
\* there and returns False
UpdateReturns(outcome) == outcome = "success"

\* the try / except of the loop body: whatever the update did, the loop
\* goes on
NextPosition_abort(outcome) == IF outcome = "raised" THEN "crashed" ELSE "applying"

NextPosition(outcome) == "applying"

\* for i, issue_item in enumerate(...): every item is taken once
NextCursor_retry(n, outcome) == IF outcome = "success" THEN n + 1 ELSE n

NextCursor(n, outcome) == n + 1

\* what the item holds on archive.org when its turn comes: each field of
\* the update either holds the suggested value already or is absent
LiveStates(metadata_updates) ==
    {live \in [DOMAIN metadata_updates -> {None} \cup {metadata_updates[k] : k \in DOMAIN metadata_updates}] :
        \A k \in DOMAIN metadata_updates : live[k] \in {None, metadata_updates[k]}}

\* update_archive_metadata_ia: filtered_updates, the fields whose current
\* value differs from the new one
FilteredUpdates(metadata_updates, live) ==
    [k \in {f \in DOMAIN metadata_updates : live[f] # metadata_updates[f]} |-> metadata_updates[k]]

\* no fields: the map of an entry that is not a request
NoFields == [k \in {} |-> None]

\* an entry of the log of the batch: a request with the fields that are
\* sent, the outcome of a request, or an item found unchanged for which
\* nothing is sent; live is what the item held at that moment
LogEntry(ev, n, outcome, fields, live) ==
    [ev |-> ev, n |-> n, identifier |-> Batch[n].identifier, outcome |-> outcome,
     fields |-> fields, live |-> live]

\* save_issues_report: sort, then write metadata_issues.json
SaveReport ==
    /\ pc = "analyzed"
    /\ pc' = "saved"
    /\ issues' = ReportOf(issues)
    /\ report' = ReportOf(issues)
    /\ UNCHANGED <<script, cursor, log, success_count, error_count>>
    /\ UNCHANGED <<items, flyerVars, date_str, std_out, std_calls, text, scan_out, ret, mismatches>>

\* main / fix_metadata_issues: the user answers no to a prompt
DeclineApply ==
    /\ pc = "saved"
    /\ pc' = "cancelled"
    /\ UNCHANGED <<issues, runVars, items, flyerVars, date_str, std_out, std_calls, text, scan_out, ret>>

\* main / fix_metadata_issues: the user answers yes to both prompts; with
\* no issues fix_metadata_issues returns at once
ProceedApply ==
    /\ pc = "saved"
    /\ script' = "analyze_metadata"
    /\ IF issues = <<>>
       THEN pc' = "done" /\ cursor' = cursor
       ELSE pc' = "applying" /\ cursor' = 1
    /\ UNCHANGED <<issues, report, log, success_count, error_count>>
    /\ UNCHANGED <<items, flyerVars, date_str, std_out, std_calls, text, scan_out, ret, mismatches>>

\* apply_metadata_fixes.main: json.load of the report, then apply_all_fixes
LoadReport ==
    /\ pc = "cancelled"
    /\ report # None
    /\ script' = "apply_metadata_fixes"
    /\ pc' = "applying"
    /\ cursor' = 1
    /\ UNCHANGED <<issues, report, log, success_count, error_count>>
    /\ UNCHANGED <<items, flyerVars, date_str, std_out, std_calls, text, scan_out, ret, mismatches>>

\* fix_metadata_issues, loop body up to requests.post: with something to
\* update, every field of metadata_updates is sent as a -patch- entry,
\* whatever the item holds
StartUpdate ==
    /\ pc = "applying"
    /\ script = "analyze_metadata"
    /\ cursor <= Len(Batch)
    /\ \E live \in LiveStates(MetadataUpdates(Batch[cursor].suggestions)) :
        IF DOMAIN MetadataUpdates(Batch[cursor].suggestions) # {}
        THEN /\ log' = Append(log, LogEntry("request", cursor, None,
                                            MetadataUpdates(Batch[cursor].suggestions), live))
             /\ pc' = "requesting"
             /\ cursor' = cursor
        ELSE /\ log' = log
             /\ pc' = "applying"
             /\ cursor' = cursor + 1
    /\ UNCHANGED <<issues, report, script, success_count, error_count>>
    /\ UNCHANGED <<items, flyerVars, date_str, std_out, std_calls, text, scan_out, ret, mismatches>>

\* apply_all_fixes, loop body up to modify_metadata: ia.get_item raises
\* (caught, False), or every field is already correct (True, nothing is
\* sent, the item is logged as unchanged), or the changed fields are sent
StartUpdateIA ==
    /\ pc = "applying"
    /\ script = "apply_metadata_fixes"
    /\ cursor <= Len(Batch)
    /\ IF DOMAIN MetadataUpdates(Batch[cursor].suggestions) = {}
       THEN /\ log' = log /\ pc' = "applying" /\ cursor' = cursor + 1
            /\ UNCHANGED <<success_count, error_count>>
       ELSE \/ /\ log' = log
               /\ pc' = NextPosition("raised")
               /\ cursor' = cursor + 1
               /\ error_count' = error_count + 1
               /\ success_count' = success_count
            \/ \E live \in LiveStates(MetadataUpdates(Batch[cursor].suggestions)) :
                 IF DOMAIN FilteredUpdates(MetadataUpdates(Batch[cursor].suggestions), live) = {}
                 THEN /\ log' = Append(log, LogEntry("unchanged", cursor, "success", NoFields, live))
                      /\ pc' = "applying"
                      /\ cursor' = cursor + 1
                      /\ success_count' = success_count + 1
                      /\ error_count' = error_count
                 ELSE /\ log' = Append(log, LogEntry("request", cursor, None,
                              FilteredUpdates(MetadataUpdates(Batch[cursor].suggestions), live), live))
                      /\ pc' = "requesting"
                      /\ cursor' = cursor
                      /\ UNCHANGED <<success_count, error_count>>
    /\ UNCHANGED <<issues, report, script>>
    /\ UNCHANGED <<items, flyerVars, date_str, std_out, std_calls, text, scan_out, ret, mismatches>>

\* the request comes to its outcome; success_count or error_count is
\* incremented, the loop sleeps and goes to the next item
Respond ==
    /\ pc = "requesting"
    /\ \E outcome \in Outcomes :
        /\ log' = Append(log, LogEntry("response", cursor, outcome, NoFields, NoFields))
        /\ success_count' = success_count + (IF UpdateReturns(outcome) THEN 1 ELSE 0)
        /\ error_count' = error_count + (IF UpdateReturns(outcome) THEN 0 ELSE 1)
        /\ pc' = NextPosition(outcome)
        /\ cursor' = NextCursor(cursor, outcome)
    /\ UNCHANGED <<issues, report, script>>
    /\ UNCHANGED <<items, flyerVars, date_str, std_out, std_calls, text, scan_out, ret, mismatches>>

\* the loop is over: the update summary is printed
FinishBatch ==
    /\ pc = "applying"
    /\ cursor > Len(Batch)
    /\ pc' = "done"
    /\ UNCHANGED <<issues, runVars, items, flyerVars, date_str, std_out, std_calls, text, scan_out, ret>>

(***************************************************************************)
(* audit_date_mismatches.py: parse_date_from_identifier and                *)
(* parse_date_from_title                                                   *)
(***************************************************************************)
\* month, day, year = match.groups(); a two-character year gets '20' in
\* front; f'{year}-{month.zfill(2)}-{day.zfill(2)}'
ExpandGroups_nopad(g) ==
    (IF Len(g[3]) = 2 THEN "20" \o g[3] ELSE g[3]) \o "-" \o g[1] \o "-" \o g[2]

ExpandGroups(g) ==
    (IF Len(g[3]) = 2 THEN "20" \o g[3] ELSE g[3])
        \o "-" \o zfill2(g[1]) \o "-" \o zfill2(g[2])

\* (\d{2})SEP(\d{2})SEP(\d{2}) at position i: the three groups, <<>> for no match
Fixed2At(s, i, sep) ==
    IF /\ DigitsAt(s, i, 2)
       /\ Ch(s, i + 2) = sep
       /\ DigitsAt(s, i + 3, 2)
       /\ Ch(s, i + 5) = sep
       /\ DigitsAt(s, i + 6, 2)
    THEN << Sub(s, i, i + 1), Sub(s, i + 3, i + 4), Sub(s, i + 6, i + 7) >>
    ELSE <<>>

\* the identifier patterns, in their order
NumIdentPatterns == 3

\* re.match of the k-th identifier pattern: the value returned on a match,
\* None for no match
IdentTry(identifier, k) ==
    CASE k = 1 ->
            LET g == Fixed2At(identifier, 1, ".")
            IN  IF g # <<>> /\ Ch(identifier, 9) = "_" THEN ExpandGroups(g) ELSE None
      [] k = 2 ->
            LET g == GroupsAt(identifier, 1, ".", 2)
            IN  IF g # <<>> /\ Ch(identifier, Len(g[1]) + Len(g[2]) + 5) = "_"
                THEN ExpandGroups(g) ELSE None
      [] k = 3 ->
            IF IsoAt(identifier, 1) /\ Ch(identifier, 11) = "-"
            THEN Sub(identifier, 1, 10) ELSE None

\* the loop over the identifier patterns from the k-th on
RECURSIVE IdentFrom(_, _)
IdentFrom(identifier, k) ==
    IF k > NumIdentPatterns THEN None
    ELSE IF IdentTry(identifier, k) # None THEN IdentTry(identifier, k)
    ELSE IdentFrom(identifier, k + 1)

parse_date_from_identifier(identifier) == IdentFrom(identifier, 1)

\* the literal 'on ' at position i
OnAt(s, i) == Ch(s, i) = "o" /\ Sub(s, i, i + 2) = "on "

\* the greedy \d{2,4} at position i: its length
YearRun(s, i) ==
    IF DigitsAt(s, i, 4) THEN 4 ELSE IF DigitsAt(s, i, 3) THEN 3 ELSE 2

\* the title patterns of the audit, in their order
NumAuditPatterns == 4

\* the k-th title pattern matches at position i
AuditHere(s, k, i) ==
    CASE k = 1 -> OnAt(s, i) /\ Fixed2At(s, i + 3, ".") # <<>>
      [] k = 2 -> OnAt(s, i) /\ GroupsAt(s, i + 3, "/", 2) # <<>>
      [] k = 3 -> IsoAt(s, i)
      [] k = 4 -> OnAt(s, i) /\ Fixed2At(s, i + 3, "-") # <<>>

\* the value returned for the match of the k-th title pattern at position i
AuditValue(s, k, i) ==
    CASE k = 1 -> ExpandGroups(Fixed2At(s, i + 3, "."))
      [] k = 2 ->
            LET g == GroupsAt(s, i + 3, "/", 2)
                y == i + 3 + Len(g[1]) + Len(g[2]) + 2
            IN  ExpandGroups(<< g[1], g[2], Sub(s, y, y + YearRun(s, y) - 1) >>)
      [] k = 3 -> Sub(s, i, i + 9)
      [] k = 4 -> ExpandGroups(Fixed2At(s, i + 3, "-"))

\* re.search of the k-th title pattern: the value returned for its leftmost
\* match, None for no match
AuditTry(title, k) ==
    LET hits == {i \in 1..Len(title) : AuditHere(title, k, i)}
    IN  IF hits = {} THEN None ELSE AuditValue(title, k, Min(hits))

\* the loop over the title patterns from the k-th on
RECURSIVE AuditFrom(_, _)
AuditFrom(title, k) ==
    IF k > NumAuditPatterns THEN None
    ELSE IF AuditTry(title, k) # None THEN AuditTry(title, k)
    ELSE AuditFrom(title, k + 1)

parse_date_from_title(title) == AuditFrom(title, 1)

(***************************************************************************)
(* fix_date_suggestions.py: parse_date_from_title and main                 *)
(***************************************************************************)
\* the title patterns of the corrector, in their order
NumFixPatterns == 3

\* the k-th pattern of the corrector matches at position i
FixHere(s, k, i) ==
    CASE k = 1 -> Fixed2At(s, i, ".") # <<>>
      [] k = 2 -> GroupsAt(s, i, "/", 2) # <<>>
      [] k = 3 -> IsoAt(s, i)

\* the start of the year group of the slash pattern matched at position i
FixYearStart(s, i) ==
    i + Len(GroupsAt(s, i, "/", 2)[1]) + Len(GroupsAt(s, i, "/", 2)[2]) + 2

\* the value returned for the match of the k-th pattern at position i
FixValue(s, k, i) ==
    CASE k = 1 -> ExpandGroups(Fixed2At(s, i, "."))
      [] k = 2 ->
            ExpandGroups(<< GroupsAt(s, i, "/", 2)[1], GroupsAt(s, i, "/", 2)[2],
                            Sub(s, FixYearStart(s, i),
                                FixYearStart(s, i) + YearRun(s, FixYearStart(s, i)) - 1) >>)
      [] k = 3 -> Sub(s, i, i + 9)

\* re.search of the k-th pattern: the value returned for its leftmost
\* match, None for no match
FixTry(title, k) ==
    LET hits == {i \in 1..Len(title) : FixHere(title, k, i)}
    IN  IF hits = {} THEN None ELSE FixValue(title, k, Min(hits))

\* the loop over the patterns from the k-th on
RECURSIVE FixFrom(_, _)
FixFrom(title, k) ==
    IF k > NumFixPatterns THEN None
    ELSE IF FixTry(title, k) # None THEN FixTry(title, k)
    ELSE FixFrom(title, k + 1)

\* parse_date_from_title of fix_date_suggestions.py
fix_parse_date_from_title(title) == FixFrom(title, 1)

\* main: the date suggestion after the check of one record
CorrectedDate_keepstored(current_suggested_date, title_date) == current_suggested_date

CorrectedDate(current_suggested_date, title_date) ==
    IF Truthy(title_date) /\ title_date # current_suggested_date
    THEN title_date
    ELSE current_suggested_date

\* main: the records the loop body looks at
HasDateSuggestion_always(item) == TRUE

HasDateSuggestion(item) == "date" \in DOMAIN item.suggestions

\* main: the suggestions of a record with the date entry set
WithDate(suggestions, value) ==
    [k \in DOMAIN suggestions \cup {"date"} |->
        IF k = "date" THEN value ELSE suggestions[k]]

\* main: the loop body for one record
CorrectRecord(item) ==
    IF HasDateSuggestion(item)
    THEN [item EXCEPT !.suggestions =
            WithDate(item.suggestions,
                     CorrectedDate(IF "date" \in DOMAIN item.suggestions
                                   THEN item.suggestions["date"] ELSE None,
                                   fix_parse_date_from_title(item.title)))]
    ELSE item

\* main: the loop over the loaded report; the file is rewritten when a
\* record was changed, and holds the same records when none was
CorrectAll(list) == [n \in 1..Len(list) |-> CorrectRecord(list[n])]

(***************************************************************************)
(* audit_date_mismatches.py: audit_date_mismatches                         *)
(***************************************************************************)
\* current_date: metadata.get('date', 'Not set') if metadata else
\* 'Error fetching', for the answers get_archive_metadata can get
CurrentDates == {"2012-01-20", "Not set", "Error fetching"}

\* if id_date and title_date and id_date != title_date
IsMismatch_alsoequal(id_date, title_date) == Truthy(id_date) /\ Truthy(title_date)

IsMismatch(id_date, title_date) ==
    Truthy(id_date) /\ Truthy(title_date) /\ id_date # title_date

\* the mismatch dictionary of one record
MismatchOf(issue_item, id_date, title_date, current_date) ==
    [ identifier |-> issue_item.identifier,
      title |-> issue_item.title,
      identifier_date |-> id_date,
      title_date |-> title_date,
      current_archive_date |-> current_date ]

\* the loop body for one record: the mismatches it appends (none or one)
AuditRecord(issue_item, id_date, title_date, current_date) ==
    IF IsMismatch(id_date, title_date)
    THEN << MismatchOf(issue_item, id_date, title_date, current_date) >>
    ELSE <<>>

\* the loop over the records from the n-th on, fetched[n] being what the
\* fetch for the n-th record answers
RECURSIVE AuditRecords(_, _, _)
AuditRecords(list, fetched, n) ==
    IF n > Len(list) THEN <<>>
    ELSE AuditRecord(list[n], parse_date_from_identifier(list[n].identifier),
                     parse_date_from_title(list[n].title), fetched[n])
            \o AuditRecords(list, fetched, n + 1)

\* if mismatches: json.dump(mismatches, f); no file is written otherwise
WrittenMismatches(old, found) == IF found = <<>> THEN old ELSE found

\* the audit only reads metadata_issues.json
ReportAfterAudit_autocorrect(list) ==
    [n \in 1..Len(list) |->
        IF /\ "date" \in DOMAIN list[n].suggestions
           /\ IsMismatch(parse_date_from_identifier(list[n].identifier),
                         parse_date_from_title(list[n].title))
        THEN [list[n] EXCEPT !.suggestions =
                WithDate(list[n].suggestions, parse_date_from_title(list[n].title))]
        ELSE list[n]]

ReportAfterAudit(list) == list

(***************************************************************************)
(* delete_bad_flyers.py: FlyerCleaner.delete_bad_flyer_files               *)
(***************************************************************************)
\* sub in s
Contains(s, sub) ==
    \E i \in 1..(Len(s) - Len(sub) + 1) : SubSeq(s, i, i + Len(sub) - 1) = sub

\* if '-flyer_itemimage.' in filename and 'T00:00:00Z-flyer_itemimage.' in filename
IsBadFlyer_anyflyer(filename) == Contains(filename, "-flyer_itemimage.")

IsBadFlyer(filename) ==
    /\ Contains(filename, "-flyer_itemimage.")
    /\ Contains(filename, "T00:00:00Z-flyer_itemimage.")

\* bad_flyer_files: the names of the listing that are bad, in its order
RECURSIVE BadFlyerFiles(_)
BadFlyerFiles(files) ==
    IF files = <<>> THEN <<>>
    ELSE (IF IsBadFlyer(Head(files)) THEN <<Head(files)>> ELSE <<>>)
            \o BadFlyerFiles(Tail(files))

\* what 'ia delete' can come to: return code 0, another return code, or an
\* exception of subprocess.run (the timeout among them)
DeleteOutcomes == {"deleted", "failed", "raised"}

(***************************************************************************)
(* Inputs of the Date Canonicalizer runs.                                  *)
(***************************************************************************)
Groups == {"1", "5", "05", "12", "13", "31", "45", "0"}

Years2 == {"00", "14", "68", "69", "99"}

Years4 == {"2014", "1999"}

SlashForm(a, b, y) == a \o "/" \o b \o "/" \o y

DotForm(a, b, y) == a \o "." \o b \o "." \o y

OtherDates ==
    { "", "2016", "2016\n", "2016-02-28", "2016-02-28\n", "2016-01-01",
      "2016-02-28T00:00:00Z", "2016-13-45T12:30:00Z", "2016-99-99", "2016-00-00",
      "2016-2-28", "20160228", "1/2.14", "1/2/014", "123/1/14", "1/2/14 ",
      "Feb 28, 2016", "2016-02-28 00:00:00", "12.03.14\n", "12/03/2014\n", "16" }

DateInputs ==
    {SlashForm(a, b, y) : a \in Groups, b \in Groups, y \in Years2 \cup Years4}
        \cup {DotForm(a, b, y) : a \in Groups, b \in Groups, y \in Years2 \cup Years4}
        \cup OtherDates

\* how many times in a row a caller canonicalizes (the result fed back in)
MaxCalls == 2

InitCanon ==
    /\ pc = "canon"
    /\ date_str \in DateInputs
    /\ std_out = None
    /\ std_calls = 0
    /\ text = None
    /\ scan_out = None
    /\ items = <<>>
    /\ issues = <<>>
    /\ NoCall
    /\ NoRun
    /\ NoFlyers

\* one call of standardize_date; a repeated call is given the previous result
Canonicalize ==
    /\ pc = "canon"
    /\ std_calls < MaxCalls
    /\ date_str' = (IF std_calls = 0 THEN date_str ELSE std_out)
    /\ std_out' = standardize_date(date_str')
    /\ std_calls' = std_calls + 1
    /\ UNCHANGED <<pc, text, scan_out, items, flyerVars, issues, ret, runVars>>

NextCanon == Canonicalize

SpecCanon == InitCanon /\ [][NextCanon]_vars

(***************************************************************************)
(* Inputs of the free-text date scanner runs.                              *)
(***************************************************************************)
ScanFirst == {"1", "01", "2", "12", "13", "0"}

ScanSecond == {"1", "12", "29", "30", "31", "32"}

ScanYears2 == {"00", "12", "15", "68", "69", "99"}

ScanYears4 == {"2014", "2016", "0000"}

ScanOther ==
    { "2014-06-14", "2014-02-30", "2016-02-29", "0000-01-01", "2015-13-01",
      "2016", "no date", "06-14-14", "2014/06/14", "6/14", "1.12.12 and 2012-01-12",
      "2/30/2014 or 3/1/2014", "12345" }

ScanTokens ==
    {SlashForm(a, b, y) : a \in ScanFirst, b \in ScanSecond, y \in ScanYears2 \cup ScanYears4}
        \cup {DotForm(a, b, y) : a \in ScanFirst, b \in ScanSecond, y \in ScanYears2 \cup ScanYears4}
        \cup ScanOther

\* the text around the date token: <<before, after>>
ScanFrames ==
    { <<"", "">>, <<"Thou @ The Che Cafe on ", "">>, <<"Live at Soma ", " (San Diego)">>,
      <<"1", "9">> }

ScanTexts == {f[1] \o t \o f[2] : f \in ScanFrames, t \in ScanTokens} \cup {"", None}

InitScan ==
    /\ pc = "scan"
    /\ text \in ScanTexts
    /\ scan_out = None
    /\ date_str = None
    /\ std_out = None
    /\ std_calls = 0
    /\ items = <<>>
    /\ issues = <<>>
    /\ NoCall
    /\ NoRun
    /\ NoFlyers

\* one call of extract_date_from_title
Scan ==
    /\ pc = "scan"
    /\ pc' = "scanned"
    /\ scan_out' = extract_date_from_title(text)
    /\ UNCHANGED <<text, date_str, std_out, std_calls, items, flyerVars, issues, ret, runVars>>

NextScan == Scan

SpecScan == InitScan /\ [][NextScan]_vars

(***************************************************************************)
(* Inputs of the Issue Detector runs: collections of fetched records.      *)
(***************************************************************************)
TitleBands == {"Thou", "Live", "SHOW"}

TitleVenues == {"The Che Cafe", "Bar on Main", "Up ON"}

TitleDates == {"01.12.12", "12.31.68", "06.14.69", "02.30.12", "13.01.12"}

\* '<Band> @ <Venue> on MM.DD.YY'
BandAtVenueOn(b, v, d) == b \o " @ " \o v \o " on " \o d

OtherTitles ==
    { "", "Untitled", "Thou @ The Che Cafe 2016-02-28", "Thou live at Soma (San Diego) 2016",
      "Thou on 1/12/12", "Thou in 2012 at The Che Cafe", "Thou @ The Che Cafe on 2016-01-01",
      "Live @ Soma (San Diego, CA) on 2/28/2016", "Show at VFW Hall [benefit] 2015-02-29",
      "Thou @ The Che Cafe on 01.12.2012", "Concert on 6/14/99" }

DetectTitles ==
    {BandAtVenueOn(b, v, d) : b \in TitleBands, v \in TitleVenues, d \in TitleDates}
        \cup OtherTitles

StoredDates ==
    { None, "", "2016", "2016-02-28", "2016-01-01", "2016-02-28T00:00:00Z",
      "2/28/2016", "February 2016" }

PublicDates == {None, "2016-03-01T10:00:00Z"}

StoredBands == {None, "", "Thou"}

StoredVenues == {None, "The Che Cafe"}

Records ==
    [ identifier : {"thou-che-cafe"},
      title : DetectTitles,
      band : StoredBands,
      venue : StoredVenues,
      date : StoredDates,
      publicdate : PublicDates ]

\* records of a second item, fetched after another one
SecondRecords ==
    [ identifier : {"thou-soma"},
      title : {"Thou live at Soma (San Diego) 2016", "Untitled"},
      band : {None, "Thou"},
      venue : {None},
      date : {None, "2016-02-28"},
      publicdate : {None} ]

\* the collections fetched: empty, one item, two items
Collections ==
    {<<>>} \cup {<<r>> : r \in Records}
        \cup {<<r, s>> : r \in {x \in Records : x.title = "Thou on 1/12/12"},
                         s \in SecondRecords}

InitDetect ==
    /\ pc = "fetched"
    /\ items \in Collections
    /\ issues = <<>>
    /\ date_str = None
    /\ std_out = None
    /\ std_calls = 0
    /\ text = None
    /\ scan_out = None
    /\ NoCall
    /\ NoRun
    /\ NoFlyers

\* analyze_items: every fetched item is examined, its IssueRecord appended
Analyze ==
    /\ pc = "fetched"
    /\ pc' = "analyzed"
    /\ issues' = issues \o AnalyzeAll(items)
    /\ UNCHANGED <<items, flyerVars, date_str, std_out, std_calls, text, scan_out, ret, runVars>>

NextDetect == Analyze

SpecDetect == InitDetect /\ [][NextDetect]_vars

(***************************************************************************)
(* Inputs of the extractor calls: one extractor applied to one string.     *)
(***************************************************************************)
IdentDates ==
    { "01.20.12", "1.5.12", "1.05.12", "12.31.99", "13.45.68", "01.20.2012", "123.1.12",
      "01.20.1", "2012-01-20", "2012-1-20", "01/20/12", "01-20-12" }

IdentTails == {"_Thou", "-thou", "", "_"}

PlainTexts ==
    { "", "Untitled", "@", "on", "Thou @ The Che Cafe on 01.12.12", "Thou on 1/12/12",
      "Thou in 2012 at The Che Cafe", "Live @ Soma (San Diego, CA) on 2/28/2016",
      "Thou live at Soma on 01-12-12", "Thou @ Soma on 2/30/14", "2/30/14",
      "Show on 1/12/2012", "Thou On 01.12.12", "on 1/12/123", "x01.20.12_Thou",
      "Feb 28, 2016", "2016-2-28", "20160228", "2016", "2016-02-28T00:00:00Z",
      "1/2/14", "1.2.2014", "ab @ cd", "Live @ on 1", "SHOW @ The Che Cafe",
      "Concert on 6/14/99", "Performance in 2012", "It on 5 in 2012", "  @ Soma",
      "Thou  live at Soma (San Diego) 2016", "Thou @ x (y) on 1.2.12",
      "Thou at (Soma) on 1.2.12", "Live At The Che Cafe [benefit]", "Thou @ Che (CA) Cafe 2012",
      \* whitespace other than the space: form feed, vertical tab (code 11), code 31
      "Thou\f@ Soma", "Thou\fon\f1", "Thou in 2014", "x @\fSoma", "x @ Soma\f(y)",
      "x @ Soma\fon 1", "live\fat Soma (x)", "Thouon 1", "\fThou @ Soma" }

ExtractTexts == {d \o t : d \in IdentDates, t \in IdentTails} \cup PlainTexts

Extractors ==
    { "extract_band_from_title", "extract_venue_from_title", "extract_date_from_title",
      "parse_date_from_identifier", "parse_date_from_title", "standardize_date" }

InitExtract ==
    /\ pc = "call"
    /\ text \in ExtractTexts
    /\ scan_out = None
    /\ date_str = None
    /\ std_out = None
    /\ std_calls = 0
    /\ items = <<>>
    /\ issues = <<>>
    /\ NoCall
    /\ NoRun
    /\ NoFlyers

\* the call of extractor fn on text returns value
Returns(fn, value) ==
    /\ pc = "call"
    /\ pc' = "returned"
    /\ ret' = [fn |-> fn, value |-> value]
    /\ UNCHANGED <<text, scan_out, date_str, std_out, std_calls, items, flyerVars, issues, runVars>>

CallBand == Returns("extract_band_from_title", extract_band_from_title(text))

CallVenue == Returns("extract_venue_from_title", extract_venue_from_title(text))

CallTitleDate == Returns("extract_date_from_title", extract_date_from_title(text))

CallIdentifierDate == Returns("parse_date_from_identifier", parse_date_from_identifier(text))

CallAuditTitleDate == Returns("parse_date_from_title", parse_date_from_title(text))

CallCanonicalizer == Returns("standardize_date", standardize_date(text))

NextExtract ==
    \/ CallBand
    \/ CallVenue
    \/ CallTitleDate
    \/ CallIdentifierDate
    \/ CallAuditTitleDate
    \/ CallCanonicalizer

SpecExtract == InitExtract /\ [][NextExtract]_vars

(***************************************************************************)
(* Inputs of the review ordering: fetched items and the IssueRecords       *)
(* analyze_items finds for them.                                           *)
(***************************************************************************)
\* the issue lists analyze_items can build: band, venue, then one date
\* issue; the empty list is the item nothing is wrong with
IssueTagLists ==
    { <<>>,
      <<"bad_date_format">>, <<"missing_date">>, <<"missing_band">>, <<"missing_venue">>,
      <<"missing_band", "missing_venue">>,
      <<"missing_band", "bad_date_format">>, <<"missing_band", "missing_date">>,
      <<"missing_venue", "bad_date_format">>, <<"missing_venue", "missing_date">>,
      <<"missing_band", "missing_venue", "bad_date_format">>,
      <<"missing_band", "missing_venue", "missing_date">> }

SortIdentifiers == {"01.20.12_Thou", "01.20.12_thou", "01.20.12-Thou", "01.20.12"}

\* a fetched item for which analyze_items finds the issues of list: a field
\* named missing is not stored, a date named bad is stored as the year only
ItemWith(identifier, list) ==
    LET tags == {list[i] : i \in 1..Len(list)}
    IN  [ identifier |-> identifier,
          title |-> "Thou @ The Che Cafe on 01.20.12",
          band |-> IF "missing_band" \in tags THEN None ELSE "Thou",
          venue |-> IF "missing_venue" \in tags THEN None ELSE "The Che Cafe",
          date |-> IF "missing_date" \in tags THEN None
                   ELSE IF "bad_date_format" \in tags THEN "2012" ELSE "2012-01-20",
          publicdate |-> None ]

SortItems == {ItemWith(id, list) : id \in SortIdentifiers, list \in IssueTagLists}

\* items of three different tiers, for the collections of three
TripleItems ==
    {ItemWith(id, list) :
        id \in {"01.20.12_Thou", "01.20.12-Thou"},
        list \in {<<"bad_date_format">>, <<"missing_band">>, <<"missing_band", "missing_date">>}}

SortInputs ==
    {<<>>} \cup {<<r>> : r \in SortItems}
        \cup {<<r, q>> : r \in SortItems, q \in SortItems}
        \cup {<<r, q, u>> : r \in TripleItems, q \in TripleItems, u \in TripleItems}

\* the state analyze_items leaves: the items and the IssueRecords found
InitSort ==
    /\ pc = "analyzed"
    /\ items \in SortInputs
    /\ issues = AnalyzeAll(items)
    /\ date_str = None
    /\ std_out = None
    /\ std_calls = 0
    /\ text = None
    /\ scan_out = None
    /\ NoCall
    /\ NoRun
    /\ NoFlyers

\* sort_issues_by_type, called on the analysis result or on a sorted list
SortByType ==
    /\ pc \in {"analyzed", "sorted"}
    /\ pc' = "sorted"
    /\ issues' = SortedByType(issues)
    /\ UNCHANGED <<items, flyerVars, date_str, std_out, std_calls, text, scan_out, ret, runVars>>

NextSort == SortByType

SpecSort == InitSort /\ [][NextSort]_vars

(***************************************************************************)
(* Inputs of the batch runs: fetched items, analyze_items has run.         *)
(***************************************************************************)
RunItems ==
    { ItemWith("1.5.12_Band", <<"bad_date_format">>),
      ItemWith("2012-01-20-thou", <<"missing_band", "missing_venue">>),
      ItemWith("01.20.12-Thou", <<"missing_band">>),
      ItemWith("fine", <<>>) }

\* the longest collection of a run
MaxBatch == 3

\* the lists of at most n items of S, no item twice: a collection holds an
\* identifier once
RECURSIVE ListsUpTo(_, _)
ListsUpTo(S, n) ==
    IF n = 0 THEN {<<>>}
    ELSE ListsUpTo(S, n - 1)
            \cup {m \in {Append(l, r) : l \in ListsUpTo(S, n - 1), r \in S} :
                    /\ Len(m) = n
                    /\ \A i \in 1..n : \A j \in 1..n : i # j => m[i] # m[j]}

\* the collections fetched: up to MaxBatch items, with or without issues
RunInputs == ListsUpTo(RunItems, MaxBatch)

\* the state analyze_items leaves: the items and the IssueRecords found
InitRun ==
    /\ pc = "analyzed"
    /\ items \in RunInputs
    /\ issues = AnalyzeAll(items)
    /\ date_str = None
    /\ std_out = None
    /\ std_calls = 0
    /\ text = None
    /\ scan_out = None
    /\ NoCall
    /\ NoRun
    /\ NoFlyers

NextRun ==
    \/ SaveReport
    \/ DeclineApply
    \/ ProceedApply
    \/ LoadReport
    \/ StartUpdate
    \/ StartUpdateIA
    \/ Respond
    \/ FinishBatch

SpecRun == InitRun /\ [][NextRun]_vars

\* a started loop keeps running and every request comes to an outcome
SpecRunFair ==
    /\ SpecRun
    /\ WF_vars(StartUpdate)
    /\ WF_vars(StartUpdateIA)
    /\ WF_vars(Respond)
    /\ WF_vars(FinishBatch)

(***************************************************************************)
(* Inputs of the review runs: fetched records that are analyzed, saved,    *)
(* corrected and audited.                                                  *)
(***************************************************************************)
ReviewIdentifiers == {"01.20.12_Thou", "1.5.12_Band", "2012-01-20-thou", "thou-che-cafe"}

ReviewTitles ==
    { "Thou @ The Che Cafe on 01.12.12", "Thou on 1/5/12", "Thou @ The Che Cafe on 01.12.2012",
      "Concert on 6/14/99", "Thou 2012-01-20", "Thou on 01-20-12", "Untitled",
      "Thou on 1/12/201", "Thou in 2012", "Thou on 01.20.12" }

ReviewDates == {None, "2016", "2016-02-28T00:00:00Z", "2/28/2016", "2012-01-20", "February 2016"}

ReviewRecords ==
    [ identifier : ReviewIdentifiers,
      title : ReviewTitles,
      band : {None, "Thou"},
      venue : {"The Che Cafe"},
      date : ReviewDates,
      publicdate : {None} ]

\* a second item, fetched after another one
ReviewSecond ==
    [ identifier : {"01.20.12_Thou"},
      title : {"Thou @ The Che Cafe on 01.12.12", "Untitled"},
      band : {None},
      venue : {None},
      date : {None, "2012-01-20"},
      publicdate : {None} ]

ReviewCollections ==
    {<<>>} \cup {<<r>> : r \in ReviewRecords}
        \cup {<<r, q>> : r \in {x \in ReviewRecords : x.title \in {"Thou on 1/5/12", "Concert on 6/14/99"}
                                                    /\ x.band = None},
                         q \in ReviewSecond}

InitReview ==
    /\ pc = "fetched"
    /\ items \in ReviewCollections
    /\ issues = <<>>
    /\ date_str = None
    /\ std_out = None
    /\ std_calls = 0
    /\ text = None
    /\ scan_out = None
    /\ NoCall
    /\ NoRun
    /\ NoFlyers

\* fix_date_suggestions.py main
CorrectSuggestions ==
    /\ pc = "saved"
    /\ pc' = "corrected"
    /\ report' = CorrectAll(report)
    /\ UNCHANGED <<script, cursor, log, success_count, error_count, mismatches>>
    /\ UNCHANGED <<issues, items, flyerVars, date_str, std_out, std_calls, text, scan_out, ret>>

\* audit_date_mismatches.py audit_date_mismatches
AuditDates ==
    /\ pc \in {"saved", "corrected"}
    /\ pc' = "audited"
    /\ \E fetched \in [1..Len(report) -> CurrentDates] :
            mismatches' = WrittenMismatches(mismatches, AuditRecords(report, fetched, 1))
    /\ report' = ReportAfterAudit(report)
    /\ UNCHANGED <<script, cursor, log, success_count, error_count>>
    /\ UNCHANGED <<issues, items, flyerVars, date_str, std_out, std_calls, text, scan_out, ret>>

NextReview ==
    \/ Analyze
    \/ SaveReport
    \/ CorrectSuggestions
    \/ AuditDates

SpecReview == InitReview /\ [][NextReview]_vars

(***************************************************************************)
(* Inputs of the flyer cleanup: the items and what their listings hold.    *)
(***************************************************************************)
\* the list of main, in its order
MainIdentifiers ==
    << "02.27.16_AtaqueDeRabia", "02.27.16_AssholeParade", "02.27.16_ANNEX",
       "02.27.16_GeneracionSuicida", "02.27.16_Coaccion", "02.28.16_GAG",
       "02.28.16_ACRYLICS", "02.28.16_CommonIgnorance", "02.28.16_BetaBoys",
       "02.26.16_ExitDust" >>

\* the longest list of items of a cleanup
MaxFlyerItems == 2

FileNames ==
    { "2016-02-27T00:00:00Z-flyer_itemimage.jpg", "2016-02-27-flyer_itemimage.jpg",
      "2016-02-27T00:00:00Z-flyer.jpg", "" }

\* the listings an item can have: no file, one file, or a bad flyer file
\* before or after another file
Listings ==
    {<<>>} \cup {<<f>> : f \in FileNames}
        \cup {<<"2016-02-27T00:00:00Z-flyer_itemimage.jpg", g>> : g \in FileNames}
        \cup {<<g, "2016-02-27T00:00:00Z-flyer_itemimage.jpg">> : g \in FileNames}

InitFlyers ==
    /\ pc = "cleaning"
    /\ identifiers \in {SubSeq(MainIdentifiers, 1, n) : n \in 0..MaxFlyerItems}
    /\ flyer_log = <<>>
    /\ bad_flyer_files = <<>>
    /\ items = <<>>
    /\ issues = <<>>
    /\ date_str = None
    /\ std_out = None
    /\ std_calls = 0
    /\ text = None
    /\ scan_out = None
    /\ NoCall
    /\ report = None
    /\ script = "delete_bad_flyers"
    /\ cursor = 1
    /\ log = <<>>
    /\ success_count = 0
    /\ error_count = 0
    /\ mismatches = None

\* the loop body begins: requests.get(files_url) is sent for the item
RequestListing ==
    /\ pc = "cleaning"
    /\ cursor <= Len(identifiers)
    /\ pc' = "listing"
    /\ UNCHANGED <<issues, runVars, items, flyerVars, date_str, std_out, std_calls, text, scan_out, ret>>

\* the listing cannot be had: requests.get raises, or answers another
\* status than 200; the item is counted as an error and ends at time.sleep(2)
ListingFails ==
    /\ pc = "listing"
    /\ \E outcome \in {"raised", "http_error"} :
        flyer_log' = Append(flyer_log,
            [ev |-> "list", n |-> cursor, identifier |-> identifiers[cursor],
             outcome |-> outcome, files |-> <<>>, filename |-> None])
    /\ pc' = "sleeping"
    /\ error_count' = error_count + 1
    /\ UNCHANGED <<identifiers, bad_flyer_files, cursor, success_count, report, script, log, mismatches>>
    /\ UNCHANGED <<issues, items, date_str, std_out, std_calls, text, scan_out, ret>>

\* the listing is had: the bad flyer files of it are collected
ListingArrives ==
    /\ pc = "listing"
    /\ \E files \in Listings :
        /\ flyer_log' = Append(flyer_log,
              [ev |-> "list", n |-> cursor, identifier |-> identifiers[cursor],
               outcome |-> "ok", files |-> files, filename |-> None])
        /\ bad_flyer_files' = BadFlyerFiles(files)
    /\ pc' = "deleting"
    /\ UNCHANGED <<identifiers, runVars>>
    /\ UNCHANGED <<issues, items, date_str, std_out, std_calls, text, scan_out, ret>>

\* for filename in bad_flyer_files: subprocess.run of 'ia delete' is
\* entered; the outcome of the entry is None while the command runs
StartDelete ==
    /\ pc = "deleting"
    /\ bad_flyer_files # <<>>
    /\ flyer_log' = Append(flyer_log,
          [ev |-> "delete", n |-> cursor, identifier |-> identifiers[cursor],
           outcome |-> None, files |-> <<>>, filename |-> Head(bad_flyer_files)])
    /\ pc' = "ia_delete"
    /\ UNCHANGED <<identifiers, bad_flyer_files, runVars>>
    /\ UNCHANGED <<issues, items, date_str, std_out, std_calls, text, scan_out, ret>>

\* subprocess.run is over: return code 0, another return code, or an
\* exception; the outcome is written to the entry of the delete, the last
\* two are counted, and the loop over the files goes on
DeleteReturns ==
    /\ pc = "ia_delete"
    /\ \E outcome \in DeleteOutcomes :
        /\ flyer_log' = [flyer_log EXCEPT ![Len(flyer_log)].outcome = outcome]
        /\ error_count' = error_count + (IF outcome = "deleted" THEN 0 ELSE 1)
    /\ bad_flyer_files' = Tail(bad_flyer_files)
    /\ pc' = "deleting"
    /\ UNCHANGED <<identifiers, cursor, success_count, report, script, log, mismatches>>
    /\ UNCHANGED <<issues, items, date_str, std_out, std_calls, text, scan_out, ret>>

\* no bad flyer file is left (or none was found): success_count += 1
ItemDone ==
    /\ pc = "deleting"
    /\ bad_flyer_files = <<>>
    /\ success_count' = success_count + 1
    /\ pc' = "sleeping"
    /\ UNCHANGED <<flyerVars, cursor, error_count, report, script, log, mismatches>>
    /\ UNCHANGED <<issues, items, date_str, std_out, std_calls, text, scan_out, ret>>

\* time.sleep(2) is over: the loop takes the next item
NextItem ==
    /\ pc = "sleeping"
    /\ cursor' = cursor + 1
    /\ pc' = "cleaning"
    /\ UNCHANGED <<flyerVars, success_count, error_count, report, script, log, mismatches>>
    /\ UNCHANGED <<issues, items, date_str, std_out, std_calls, text, scan_out, ret>>

\* the loop is over: the cleanup summary is printed
FinishCleanup ==
    /\ pc = "cleaning"
    /\ cursor > Len(identifiers)
    /\ pc' = "cleaned"
    /\ UNCHANGED <<issues, runVars, items, flyerVars, date_str, std_out, std_calls, text, scan_out, ret>>

NextFlyers ==
    \/ RequestListing
    \/ ListingFails
    \/ ListingArrives
    \/ StartDelete
    \/ DeleteReturns
    \/ ItemDone
    \/ NextItem
    \/ FinishCleanup

SpecFlyers == InitFlyers /\ [][NextFlyers]_vars

\* the loop keeps running: the script is one thread, every request, every
\* 'ia delete' (timeout of 30 seconds) and the sleep return
SpecFlyersFair == SpecFlyers /\ WF_vars(NextFlyers)

(***************************************************************************)
(* Properties of the Date Canonicalizer, checked under SpecCanon.          *)
(***************************************************************************)
\* the shape DDDD-DD-DD and its parts
IsCanonicalShape(s) == Len(s) = 10 /\ IsoAt(s, 1)

YearPart(s) == Sub(s, 1, 4)

MonthPart(s) == Sub(s, 6, 7)

DayPart(s) == Sub(s, 9, 10)

\* the first call has returned and date_str is the string the caller passed
FirstCallDone == pc = "canon" /\ std_calls = 1

\* C6: for every input of shape M/D/YY or D.M.YY the result is a canonical
\* date whose year is the string "20" followed by YY, i.e. the number
\* 2000 + YY, never 19YY.
C6_TwoDigitYearIs20YY ==
    \A a \in Groups, b \in Groups, y \in Years2 :
        (FirstCallDone /\ date_str \in {SlashForm(a, b, y), DotForm(a, b, y)}) =>
            /\ IsCanonicalShape(std_out)
            /\ YearPart(std_out) = "20" \o y
            /\ ToInt(YearPart(std_out)) = 2000 + ToInt(y)

C6_Witness ==
    FirstCallDone /\ date_str = "5.13.99" /\ std_out = "2099-13-05"

\* C8: the slash form reads its first group as the month and its second as
\* the day, the dot form reads its first group as the day and its second as
\* the month; hence for the same groups a, b and year, one of them above 12
\* and the other at most 12, the two forms canonicalize differently.
C8_OrderDependsOnSeparator ==
    \A a \in Groups, b \in Groups, y \in Years2 \cup Years4 :
        LET oneAbove12 == \/ (ToInt(a) > 12 /\ ToInt(b) <= 12)
                          \/ (ToInt(b) > 12 /\ ToInt(a) <= 12)
        IN  /\ (FirstCallDone /\ date_str = SlashForm(a, b, y)) =>
                /\ IsCanonicalShape(std_out)
                /\ ToInt(MonthPart(std_out)) = ToInt(a)
                /\ ToInt(DayPart(std_out)) = ToInt(b)
                /\ oneAbove12 => std_out # standardize_date(DotForm(a, b, y))
            /\ (FirstCallDone /\ date_str = DotForm(a, b, y)) =>
                /\ IsCanonicalShape(std_out)
                /\ ToInt(DayPart(std_out)) = ToInt(a)
                /\ ToInt(MonthPart(std_out)) = ToInt(b)
                /\ oneAbove12 => std_out # standardize_date(SlashForm(a, b, y))

C8_Witness ==
    FirstCallDone /\ date_str = "13.5.2014" /\ std_out = "2014-05-13"
        /\ standardize_date("13/5/2014") = "2014-13-05"

\* C9: canonicalizing the result of a canonicalization returns it unchanged,
\* and a string already of shape YYYY-MM-DD is returned unchanged.
C9_Idempotent ==
    /\ (pc = "canon" /\ std_calls >= 2) => std_out = date_str
    /\ (pc = "canon" /\ std_calls >= 1 /\ IsCanonicalShape(date_str)) => std_out = date_str

C9_Witness ==
    pc = "canon" /\ std_calls = 2 /\ date_str = "2016-02-28" /\ std_out = "2016-02-28"

\* C10: every result of shape YYYY-MM-DD has its month part in 01..12 and
\* its day part in 01..31.
C10_MonthDayInRange ==
    (pc = "canon" /\ std_calls >= 1 /\ IsCanonicalShape(std_out)) =>
        /\ ToInt(MonthPart(std_out)) \in 1..12
        /\ ToInt(DayPart(std_out)) \in 1..31

(***************************************************************************)
(* Properties of the free-text date scanner, checked under SpecScan.       *)
(***************************************************************************)
\* the two-digit year group of the match that produced the result
ScannedYY(title) ==
    LET k == FirstSuccess(title)
    IN  PatternGroups(title, k, PatternPos(title, k))[3]

\* the call has returned a date taken from a two-digit-year match
TwoDigitYearScanned ==
    pc = "scanned" /\ Truthy(text) /\ FirstSuccess(text) \in {4, 5}

\* C7 as claimed: when the first successful match is a two-digit-year date
\* M/D/YY or M.D.YY, the year of the returned date is 2000 + YY.
C7_ScanYearIs2000PlusYY ==
    TwoDigitYearScanned =>
        ToInt(YearPart(scan_out)) = 2000 + ToInt(ScannedYY(text))

\* C7 as amended: when the first successful match is a two-digit-year date,
\* the year of the returned date is 2000 + YY for YY in 00..68 and
\* 1900 + YY for YY in 69..99.
C7_ScanYearPivot ==
    TwoDigitYearScanned =>
        /\ IsCanonicalShape(scan_out)
        /\ ToInt(YearPart(scan_out)) =
              (IF ToInt(ScannedYY(text)) <= 68 THEN 2000 ELSE 1900) + ToInt(ScannedYY(text))

C7_Witness ==
    /\ TwoDigitYearScanned
    /\ text = "Thou @ The Che Cafe on 1.12.69"
    /\ scan_out = "1969-01-12"

\* the position of the leftmost substring of the shape of pattern k, 0 for none
LeftmostOfShape(s, k) ==
    IF \E i \in 1..Len(s) : PatternHere(s, k, i)
    THEN CHOOSE i \in 1..Len(s) :
            PatternHere(s, k, i) /\ \A j \in 1..(i - 1) : ~PatternHere(s, k, j)
    ELSE 0

\* the canonical date written from the groups of pattern k's match at i
DerivedDate(s, k, i) ==
    LET g == PatternGroups(s, k, i)
    IN  CASE k = 1 -> Sub(s, i, i + 9)
          [] k \in {2, 3} -> g[3] \o "-" \o PadLeft(g[1], 2) \o "-" \o PadLeft(g[2], 2)
          [] k \in {4, 5} -> (IF ToInt(g[3]) <= 68 THEN "20" ELSE "19") \o g[3]
                                \o "-" \o PadLeft(g[1], 2) \o "-" \o PadLeft(g[2], 2)
          [] k = 6 -> g[3] \o "-01-01"

\* the groups of pattern k's match at i name a day of the calendar
\* (a bare year is not examined)
IsCalendarDate(s, k, i) ==
    LET g == PatternGroups(s, k, i)
        y == IF k \in {4, 5}
             THEN (IF ToInt(g[3]) <= 68 THEN 2000 ELSE 1900) + ToInt(g[3])
             ELSE ToInt(g[3])
    IN  \/ k = 6
        \/ /\ y >= 1
           /\ ToInt(g[1]) \in 1..12
           /\ ToInt(g[2]) \in 1..DaysInMonth(y, ToInt(g[1]))

\* the earliest pattern that matches anywhere, 0 for none
EarliestMatching(s) ==
    IF \E k \in 1..NumPatterns : LeftmostOfShape(s, k) # 0
    THEN CHOOSE k \in 1..NumPatterns :
            /\ LeftmostOfShape(s, k) # 0
            /\ \A j \in 1..(k - 1) : LeftmostOfShape(s, j) = 0
    ELSE 0

\* the earliest pattern whose leftmost match names a day of the calendar
EarliestParsing(s) ==
    LET ok(k) == LeftmostOfShape(s, k) # 0 /\ IsCalendarDate(s, k, LeftmostOfShape(s, k))
    IN  IF \E k \in 1..NumPatterns : ok(k)
        THEN CHOOSE k \in 1..NumPatterns : ok(k) /\ \A j \in 1..(k - 1) : ~ok(j)
        ELSE 0

Scanned == pc = "scanned" /\ Truthy(text)

\* C11 as claimed: the result is derived from the leftmost match of the
\* earliest pattern that matches anywhere in the text; in particular a text
\* containing a substring of shape DDDD-DD-DD yields the leftmost such
\* substring unchanged.
C11_EarliestMatchingPatternWins ==
    Scanned =>
        /\ EarliestMatching(text) # 0 =>
              scan_out = DerivedDate(text, EarliestMatching(text),
                                     LeftmostOfShape(text, EarliestMatching(text)))
        /\ LeftmostOfShape(text, 1) # 0 =>
              scan_out = Sub(text, LeftmostOfShape(text, 1), LeftmostOfShape(text, 1) + 9)

\* C11 as amended: the result is derived from the leftmost match of the
\* earliest pattern whose leftmost match names a day of the calendar (a bare
\* year always does), wherever later patterns match, and is absent when
\* there is no such pattern; in particular a text whose leftmost substring
\* of shape DDDD-DD-DD names a day of the calendar yields it unchanged.
C11_EarliestParsingPatternWins ==
    Scanned =>
        /\ scan_out = (IF EarliestParsing(text) = 0 THEN None
                       ELSE DerivedDate(text, EarliestParsing(text),
                                        LeftmostOfShape(text, EarliestParsing(text))))
        /\ (/\ LeftmostOfShape(text, 1) # 0
            /\ IsCalendarDate(text, 1, LeftmostOfShape(text, 1))) =>
              scan_out = Sub(text, LeftmostOfShape(text, 1), LeftmostOfShape(text, 1) + 9)

C11_Witness ==
    /\ Scanned
    /\ text = "1.12.12 and 2012-01-12"
    /\ LeftmostOfShape(text, 5) = 1
    /\ LeftmostOfShape(text, 1) = 13
    /\ scan_out = "2012-01-12"

(***************************************************************************)
(* Properties of single extractor calls, checked under SpecExtract.        *)
(***************************************************************************)
Returned(fn) == pc = "returned" /\ ret.fn = fn

\* no pattern of the extractor matches the text
NoBandPattern(t) == \A k \in 1..NumBandPatterns : BandGroup(t, k) = ""

NoVenuePattern(t) ==
    \A k \in 1..Len(VenuePatterns) :
        VenueSearch(t, VenuePatterns[k][1], VenuePatterns[k][2]) = ""

NoScanPattern(t) == \A k \in 1..NumPatterns : LeftmostOfShape(t, k) = 0

\* the identifier starts with M.D.YY_ (one or two digits for M and D)
HasDotPrefix(t) ==
    \E la \in 1..2, lb \in 1..2 :
        /\ DigitsAt(t, 1, la) /\ Ch(t, la + 1) = "."
        /\ DigitsAt(t, la + 2, lb) /\ Ch(t, la + lb + 2) = "."
        /\ DigitsAt(t, la + lb + 3, 2) /\ Ch(t, la + lb + 5) = "_"

\* the identifier starts with YYYY-MM-DD-
HasIsoPrefix(t) == IsoAt(t, 1) /\ Ch(t, 11) = "-"

NoAuditPattern(t) ==
    \A k \in 1..NumAuditPatterns : \A i \in 1..Len(t) : ~AuditHere(t, k, i)

\* none of the seven forms of the Date Canonicalizer
Unrecognized(d) ==
    /\ \A sep \in {"/", "."}, ylen \in {2, 4} : NumSepNum(d, sep, ylen) = <<>>
    /\ ~(IsoAt(d, 1) /\ (Ch(d, 11) = "T" \/ AtDollar(d, 11)))
    /\ ~(DigitsAt(d, 1, 4) /\ AtDollar(d, 5))

\* C12: on every string, the empty one included, no extractor call and no
\* canonicalizer call ends in an exception; an extractor none of whose
\* patterns matches returns None, and the canonicalizer returns an
\* unrecognized string exactly as given.
C12_MissesAreValues ==
    /\ pc = "returned" => ret.value # ValueError
    /\ (Returned("extract_band_from_title") /\ NoBandPattern(text)) => ret.value = None
    /\ (Returned("extract_venue_from_title") /\ NoVenuePattern(text)) => ret.value = None
    /\ (Returned("extract_date_from_title") /\ NoScanPattern(text)) => ret.value = None
    /\ (Returned("parse_date_from_identifier") /\ ~HasDotPrefix(text) /\ ~HasIsoPrefix(text)) =>
            ret.value = None
    /\ (Returned("parse_date_from_title") /\ NoAuditPattern(text)) => ret.value = None
    /\ (Returned("standardize_date") /\ Unrecognized(text)) => ret.value = text
    /\ (pc = "returned" /\ text = "") => ret.value = (IF ret.fn = "standardize_date" THEN "" ELSE None)

C12_Witness ==
    /\ Returned("standardize_date")
    /\ text = "Feb 28, 2016"
    /\ Unrecognized(text)
    /\ ret.value = "Feb 28, 2016"

\* the position of the first "@" of the text, 0 for none
FirstAtSign(t) ==
    IF \E i \in 1..Len(t) : Ch(t, i) = "@"
    THEN CHOOSE i \in 1..Len(t) : Ch(t, i) = "@" /\ \A j \in 1..(i - 1) : Ch(t, j) # "@"
    ELSE 0

\* the position where the first 'whitespace, word, whitespace, digit' after
\* at least one character begins, 0 for none
FirstWordBeforeDigit(t, word) ==
    IF \E i \in 2..Len(t) : WsWordWsDigit(t, i, word)
    THEN CHOOSE i \in 2..Len(t) :
            WsWordWsDigit(t, i, word) /\ \A j \in 2..(i - 1) : ~WsWordWsDigit(t, j, word)
    ELSE 0

\* the trimmed candidate of the k-th performer pattern, None when the
\* pattern finds nothing: the text before the first @, before the word on
\* followed by a digit, before the word in followed by a digit
PerformerCandidate(t, k) ==
    LET cut == CASE k = 1 -> FirstAtSign(t)
                 [] k = 2 -> FirstWordBeforeDigit(t, "on")
                 [] k = 3 -> FirstWordBeforeDigit(t, "in")
    IN  IF cut <= 1 THEN None ELSE strip(Sub(t, 1, cut - 1))

PerformerQualifies(t, k) ==
    /\ PerformerCandidate(t, k) # None
    /\ Len(PerformerCandidate(t, k)) > 2
    /\ lower(PerformerCandidate(t, k)) \notin {"live", "show", "concert", "performance"}

\* C13: the performer returned for a (one-line) title is the trimmed candidate of the
\* first of the three patterns (before @, before on + digit, before
\* in + digit) whose candidate is longer than two characters and is not,
\* in any letter case, live/show/concert/performance; a rejected candidate
\* falls through to the next pattern; when no pattern qualifies nothing is
\* returned.
C13_FirstQualifyingPerformer ==
    (Returned("extract_band_from_title") /\ Truthy(text)) =>
        IF \E k \in 1..3 : PerformerQualifies(text, k)
        THEN \E k \in 1..3 :
                /\ PerformerQualifies(text, k)
                /\ \A j \in 1..(k - 1) : ~PerformerQualifies(text, j)
                /\ ret.value = PerformerCandidate(text, k)
        ELSE ret.value = None

C13_Witness ==
    /\ Returned("extract_band_from_title")
    /\ text = "Live @ Soma (San Diego, CA) on 2/28/2016"
    /\ PerformerCandidate(text, 1) = "Live"
    /\ ret.value = "Live @ Soma (San Diego, CA)"

\* the delimiter families in their order, each with its parenthesis-
\* terminated variant before its fallback
VenueOrder ==
    << <<"@", "paren">>, <<"@", "fallback">>, <<"at", "paren">>, <<"at", "fallback">>,
       <<"live at", "paren">>, <<"live at", "fallback">> >>

\* the candidate of the k-th venue pattern with its parenthesized parts
\* stripped and the rest trimmed, "" when the pattern finds nothing
StrippedVenue(t, k) ==
    LET g == VenueSearch(t, VenueOrder[k][1], VenueOrder[k][2])
    IN  IF g = "" THEN "" ELSE strip(RemoveParens(strip(g)))

\* no "(" of v has a ")" after it
NoParenPair(v) ==
    \A i \in 1..Len(v) : Ch(v, i) = "(" => \A j \in (i + 1)..Len(v) : Ch(v, j) # ")"

\* C14: the venue returned for a title is the stripped candidate of the
\* first pattern, in the order @, at, live at and parenthesis variant before
\* fallback, whose stripped candidate is longer than two characters, and
\* nothing when there is none; every venue returned is longer than two
\* characters and contains no parenthesized part.
C14_FirstAcceptedVenue ==
    (Returned("extract_venue_from_title") /\ Truthy(text)) =>
        /\ IF \E k \in 1..6 : Len(StrippedVenue(text, k)) > 2
           THEN \E k \in 1..6 :
                    /\ Len(StrippedVenue(text, k)) > 2
                    /\ \A j \in 1..(k - 1) : Len(StrippedVenue(text, j)) <= 2
                    /\ ret.value = StrippedVenue(text, k)
           ELSE ret.value = None
        /\ ret.value # None => (Len(ret.value) > 2 /\ NoParenPair(ret.value))

C14_Witness ==
    /\ Returned("extract_venue_from_title")
    /\ text = "Thou @ Che (CA) Cafe 2012"
    /\ StrippedVenue(text, 2) = "Che Cafe"
    /\ ret.value = "Che"

\* the lengths <<la, lb>> of the month and the day of a prefix M.D.YY_
DotPrefixLengths(t) ==
    CHOOSE p \in {<<1, 1>>, <<1, 2>>, <<2, 1>>, <<2, 2>>} :
        /\ DigitsAt(t, 1, p[1]) /\ Ch(t, p[1] + 1) = "."
        /\ DigitsAt(t, p[1] + 2, p[2]) /\ Ch(t, p[1] + p[2] + 2) = "."
        /\ DigitsAt(t, p[1] + p[2] + 3, 2) /\ Ch(t, p[1] + p[2] + 5) = "_"

\* '20YY-MM-DD' written from a prefix M.D.YY_
DotPrefixDate(t) ==
    LET la == DotPrefixLengths(t)[1]
        lb == DotPrefixLengths(t)[2]
    IN  "20" \o Sub(t, la + lb + 3, la + lb + 4)
            \o "-" \o PadLeft(Sub(t, 1, la), 2)
            \o "-" \o PadLeft(Sub(t, la + 2, la + lb + 1), 2)

\* C15: an identifier that starts with MM.DD.YY_ or M.D.YY_ yields
\* 20YY-MM-DD with month and day padded to two digits, one that starts with
\* YYYY-MM-DD- yields that YYYY-MM-DD, and every other identifier yields
\* nothing.
C15_IdentifierDate ==
    Returned("parse_date_from_identifier") =>
        IF HasDotPrefix(text)
        THEN ret.value = DotPrefixDate(text) /\ IsCanonicalShape(ret.value)
        ELSE IF HasIsoPrefix(text) THEN ret.value = Sub(text, 1, 10)
        ELSE ret.value = None

C15_Witness ==
    /\ Returned("parse_date_from_identifier")
    /\ text = "1.5.12_Thou"
    /\ HasDotPrefix(text)
    /\ ret.value = "2012-01-05"

(***************************************************************************)
(* Properties of the review ordering, checked under SpecSort.              *)
(***************************************************************************)
\* the tier the sort gave a record
TierOf(r) == get_sort_key(r)[1]

\* C16: sorting a sorted collection leaves it unchanged; in a sorted
\* collection the tiers never decrease, and of two records of one tier the
\* later one never has the smaller identifier.
C16_SortedAndIdempotent ==
    pc = "sorted" =>
        /\ SortedByType(issues) = issues
        /\ \A i \in 1..Len(issues), j \in 1..Len(issues) :
                i < j =>
                    /\ TierOf(issues[i]) <= TierOf(issues[j])
                    /\ TierOf(issues[i]) = TierOf(issues[j]) =>
                            ~StrLess(issues[j].identifier, issues[i].identifier)

C16_Witness ==
    /\ pc = "sorted"
    /\ Len(issues) = 3
    /\ TierOf(issues[1]) = 1
    /\ TierOf(issues[2]) = 5 /\ issues[2].identifier = "01.20.12-Thou"
    /\ TierOf(issues[3]) = 5 /\ issues[3].identifier = "01.20.12_Thou"

\* the tier the contract gives an issue set
ContractTier(tags) ==
    LET band == "missing_band" \in tags
        venue == "missing_venue" \in tags
        dated == "missing_date" \in tags \/ "bad_date_format" \in tags
    IN  IF tags = {"bad_date_format"} THEN 1
        ELSE IF band /\ venue THEN 2
        ELSE IF band /\ dated THEN 3
        ELSE IF venue /\ dated THEN 4
        ELSE IF band THEN 5
        ELSE IF venue THEN 6
        ELSE 7

\* C17: every record is sorted under the tier of the contract: only
\* bad_date_format 1, band and venue 2, band with a date issue 3, venue
\* with a date issue 4, band only 5, venue only 6, anything else 7.
C17_TierAssignment ==
    pc = "sorted" =>
        \A n \in 1..Len(issues) : TierOf(issues[n]) = ContractTier(IssueSet(issues[n]))

(***************************************************************************)
(* Properties of the Issue Detector, checked under SpecDetect.             *)
(***************************************************************************)
\* the IssueRecords produced for an item
IssuesOf(item) ==
    {issues[i] : i \in {j \in 1..Len(issues) : issues[j].identifier = item.identifier}}

Tags(r) == {r.issues[i] : i \in 1..Len(r.issues)}

Suggests(r, field, value) ==
    field \in DOMAIN r.suggestions /\ r.suggestions[field] = value

\* primary date, else public date
Effective(item) == IF Truthy(item.date) THEN item.date ELSE item.publicdate

\* the condition of rule 1 for an item with an effective date
Rule1Applies(item) ==
    LET title_date == extract_date_from_title(item.title)
    IN  /\ title_date # None
        /\ endswith(standardize_date(Effective(item)), "-01-01")
        /\ ~endswith(title_date, "-01-01")

\* C1: for a record with an effective date, when the title yields a date,
\* the canonicalized effective date ends in -01-01 and the title date does
\* not, the record is flagged bad_date_format and the title date is suggested.
C1_TitleWinsOverYearOnly ==
    \A n \in 1..Len(items) :
        (pc = "analyzed" /\ Truthy(Effective(items[n])) /\ Rule1Applies(items[n])) =>
            \E r \in IssuesOf(items[n]) :
                /\ "bad_date_format" \in Tags(r)
                /\ Suggests(r, "date", extract_date_from_title(items[n].title))

C1_Witness ==
    /\ pc = "analyzed"
    /\ Len(items) = 1
    /\ items[1].date = "2016"
    /\ items[1].title = "Thou @ The Che Cafe 2016-02-28"
    /\ \E r \in IssuesOf(items[1]) :
            "bad_date_format" \in Tags(r) /\ Suggests(r, "date", "2016-02-28")

\* C2: for a record with an effective date to which rule 1 does not apply,
\* bad_date_format is flagged, with the canonicalized date suggested,
\* exactly when the canonicalized date differs from the raw one; when they
\* are equal no date issue is flagged.
C2_FormatNormalization ==
    \A n \in 1..Len(items) :
        LET eff == Effective(items[n])
        IN  (pc = "analyzed" /\ Truthy(eff) /\ ~Rule1Applies(items[n])) =>
                IF standardize_date(eff) # eff
                THEN \E r \in IssuesOf(items[n]) :
                        /\ "bad_date_format" \in Tags(r)
                        /\ Suggests(r, "date", standardize_date(eff))
                ELSE \A r \in IssuesOf(items[n]) :
                        /\ Tags(r) \cap {"bad_date_format", "missing_date"} = {}
                        /\ "date" \notin DOMAIN r.suggestions

C2_Witness ==
    /\ pc = "analyzed"
    /\ Len(items) = 1
    /\ items[1].date = "2016-02-28T00:00:00Z"
    /\ \E r \in IssuesOf(items[1]) :
            "bad_date_format" \in Tags(r) /\ Suggests(r, "date", "2016-02-28")

\* performer and venue present, effective date already a YYYY-MM-DD string
AllPresentCanonical(item) ==
    /\ Truthy(item.band)
    /\ Truthy(item.venue)
    /\ Truthy(Effective(item))
    /\ IsCanonicalShape(Effective(item))

\* C3 as claimed: a record whose performer and venue are present and whose
\* effective date is a canonical YYYY-MM-DD string produces no IssueRecord,
\* whatever its title.
C3_NoIssueWhenCanonical ==
    \A n \in 1..Len(items) :
        (pc = "analyzed" /\ AllPresentCanonical(items[n])) => IssuesOf(items[n]) = {}

\* C3 as amended: such a record produces no IssueRecord unless its effective
\* date ends in -01-01 and the title yields a date that does not; in that
\* case it is flagged bad_date_format (rule 1).
C3_NoIssueUnlessJanuaryFirst ==
    \A n \in 1..Len(items) :
        (pc = "analyzed" /\ AllPresentCanonical(items[n])) =>
            IF Rule1Applies(items[n])
            THEN \E r \in IssuesOf(items[n]) : Tags(r) = {"bad_date_format"}
            ELSE IssuesOf(items[n]) = {}

C3_Witness ==
    /\ pc = "analyzed"
    /\ Len(items) = 1
    /\ AllPresentCanonical(items[1])
    /\ items[1].date = "2016-02-28"
    /\ items[1].title = "Thou @ The Che Cafe on 01.12.12"
    /\ issues = <<>>

\* C4: missing_date is flagged exactly when the primary and the public date
\* are both absent and the title yields a date, which is then the
\* suggestion; with the primary date absent and the public date present the
\* public date is the date examined and missing_date is not flagged.
C4_MissingDate ==
    \A n \in 1..Len(items) :
        LET item == items[n]
            title_date == extract_date_from_title(item.title)
            flagged == \E r \in IssuesOf(item) : "missing_date" \in Tags(r)
        IN  pc = "analyzed" =>
                /\ flagged <=>
                      (~Truthy(item.date) /\ ~Truthy(item.publicdate) /\ title_date # None)
                /\ flagged => \E r \in IssuesOf(item) : Suggests(r, "date", title_date)
                /\ (~Truthy(item.date) /\ Truthy(item.publicdate)) =>
                      /\ ~flagged
                      /\ \A r \in IssuesOf(item) : r.current.date = item.publicdate

C4_Witness ==
    /\ pc = "analyzed"
    /\ Len(items) = 1
    /\ ~Truthy(items[1].date)
    /\ ~Truthy(items[1].publicdate)
    /\ items[1].title = "Thou @ The Che Cafe on 01.12.12"
    /\ \E r \in IssuesOf(items[1]) :
            "missing_date" \in Tags(r) /\ Suggests(r, "date", "2012-01-12")

\* a record with no stored performer, venue or date
NothingStored(item) ==
    /\ ~Truthy(item.band)
    /\ ~Truthy(item.venue)
    /\ ~Truthy(item.date)
    /\ ~Truthy(item.publicdate)

\* the IssueRecord C5 describes for the title '<b> @ <v> on MM.DD.YY'
FullySuggested(item, b, v, d) ==
    \E r \in IssuesOf(item) :
        /\ Tags(r) = {"missing_band", "missing_venue", "missing_date"}
        /\ DOMAIN r.suggestions = {"band", "venue", "date"}
        /\ r.suggestions["band"] = b
        /\ r.suggestions["venue"] = v
        /\ r.suggestions["date"] = "20" \o Sub(d, 7, 8) \o "-" \o Sub(d, 1, 2) \o "-" \o Sub(d, 4, 5)

\* C5 as claimed: every title '<Band> @ <Venue> on MM.DD.YY' on a record
\* with nothing stored gives missing_band, missing_venue and missing_date
\* with suggestions Band, Venue and 20YY-MM-DD.
C5_BandVenueDateFromTitle ==
    \A n \in 1..Len(items) :
        \A b \in TitleBands, v \in TitleVenues, d \in TitleDates :
            (/\ pc = "analyzed"
             /\ items[n].title = BandAtVenueOn(b, v, d)
             /\ NothingStored(items[n])) => FullySuggested(items[n], b, v, d)

\* the word "on", in any letter case, after whitespace and before
\* whitespace or the end of the venue
HasOnWord(v) ==
    \E i \in 1..Len(v) :
        /\ IsSpace(Ch(v, i))
        /\ lower(Sub(v, i + 1, i + 2)) = "on"
        /\ (i + 2 = Len(v) \/ IsSpace(Ch(v, i + 3)))

\* MM.DD is a day of the calendar of the year 20YY, YY at most 68
ValidDate20(d) ==
    /\ ToInt(Sub(d, 7, 8)) <= 68
    /\ ToInt(Sub(d, 1, 2)) \in 1..12
    /\ ToInt(Sub(d, 4, 5)) >= 1
    /\ ToInt(Sub(d, 4, 5)) <= DaysInMonth(2000 + ToInt(Sub(d, 7, 8)), ToInt(Sub(d, 1, 2)))

\* C5 as amended: the same, for a Band that is not a stop word
\* (live/show/concert/performance in any case), a Venue without a word "on"
\* after its first word, MM.DD a valid calendar date and YY in 00..68.
C5_BandVenueDateFromCleanTitle ==
    \A n \in 1..Len(items) :
        \A b \in TitleBands, v \in TitleVenues, d \in TitleDates :
            (/\ pc = "analyzed"
             /\ items[n].title = BandAtVenueOn(b, v, d)
             /\ NothingStored(items[n])
             /\ lower(b) \notin {"live", "show", "concert", "performance"}
             /\ ~HasOnWord(v)
             /\ ValidDate20(d)) => FullySuggested(items[n], b, v, d)

C5_Witness ==
    /\ pc = "analyzed"
    /\ Len(items) = 1
    /\ items[1].title = "Thou @ The Che Cafe on 01.12.12"
    /\ NothingStored(items[1])
    /\ FullySuggested(items[1], "Thou", "The Che Cafe", "01.12.12")

(***************************************************************************)
(* Properties of the batch of update requests, checked under SpecRun and   *)
(* SpecRunFair.                                                            *)
(***************************************************************************)
\* a loop over the records has started
Applying == pc \in {"applying", "requesting", "done"} /\ script # None

\* the positions of the log that are update requests
Requests == {i \in 1..Len(log) : log[i].ev = "request"}

\* the positions of the log that are outcomes of update requests
Responses == {i \in 1..Len(log) : log[i].ev = "response"}

\* the records are in the order of the review sort
InSortOrder(list) ==
    \A i \in 1..Len(list), j \in 1..Len(list) :
        i < j =>
            \/ TierOf(list[i]) < TierOf(list[j])
            \/ /\ TierOf(list[i]) = TierOf(list[j])
               /\ ~StrLess(list[j].identifier, list[i].identifier)

\* C18: in a run the records that are updated are in the order of the
\* priority sort, every request is for the record at its position, requests
\* go out in that order, and a request's attempt is over (its outcome is
\* logged) before the next request goes out.
C18_SequentialInSortOrder ==
    Applying =>
        /\ InSortOrder(Batch)
        /\ \A i \in 1..Len(log) :
                /\ log[i].n \in 1..Len(Batch)
                /\ log[i].identifier = Batch[log[i].n].identifier
        /\ \A i \in Requests, j \in Requests : i < j => log[i].n < log[j].n
        /\ \A i \in Requests :
                IF i = Len(log)
                THEN pc = "requesting" /\ cursor = log[i].n
                ELSE log[i + 1].ev = "response" /\ log[i + 1].n = log[i].n
        /\ \A i \in Responses : i > 1 /\ log[i - 1].ev = "request"

C18_Witness ==
    /\ pc = "requesting"
    /\ script = "analyze_metadata"
    /\ Len(Batch) = 3
    /\ Batch[1].identifier = "1.5.12_Band"
    /\ Batch[2].identifier = "2012-01-20-thou"
    /\ Batch[3].identifier = "01.20.12-Thou"
    /\ Len(log) = 5
    /\ log[4].ev = "response" /\ log[4].n = 2
    /\ log[5].ev = "request" /\ log[5].n = 3

\* every record of the batch has been taken by the loop and counted
AllAttempted ==
    /\ cursor = Len(Batch) + 1
    /\ success_count + error_count = Len(Batch)

\* C19: a batch apply that has started ends, whatever each update came to
\* (raised, rejected, succeeded), and when it ends every record of the
\* collection has been attempted and counted.
C19_FailureIsolation ==
    (pc = "applying" /\ script # None) ~> (pc = "done" /\ AllAttempted)

C19_Witness ==
    /\ pc = "done"
    /\ script = "apply_metadata_fixes"
    /\ Len(Batch) = 3
    /\ Len(log) = 4
    /\ log[2].ev = "response" /\ log[2].n = 1 /\ log[2].outcome = "raised"
    /\ log[4].ev = "response" /\ log[4].n = 3 /\ log[4].outcome = "success"
    /\ error_count = 2
    /\ success_count = 1

\* C20: no entry of the collection has two update requests in the log, and
\* after a failed outcome for an entry nothing more is sent for it.
C20_NoRetries ==
    /\ \A i \in Requests, j \in Requests : log[i].n = log[j].n => i = j
    /\ \A i \in Responses, j \in 1..Len(log) :
            (log[i].outcome # "success" /\ i < j) => log[j].n # log[i].n

C20_Witness ==
    /\ pc = "done"
    /\ script = "analyze_metadata"
    /\ Len(Batch) = 2
    /\ Len(log) = 4
    /\ log[1].ev = "request" /\ log[1].n = 1
    /\ log[2].outcome = "rejected"
    /\ log[3].ev = "request" /\ log[3].n = 2
    /\ log[4].outcome = "raised"
    /\ error_count = 2

\* C21: in both apply paths no request carries a field whose live value
\* already equals the suggested value, and no request goes out when every
\* suggested field is already correct.
C21_PreUpdateDiff ==
    \A i \in Requests :
        /\ DOMAIN log[i].fields # {}
        /\ \A f \in DOMAIN log[i].fields : log[i].live[f] # log[i].fields[f]

(***************************************************************************)
(* Properties of the Suggestion Corrector and of the Cross-Source Date     *)
(* Auditor, checked under SpecReview.                                      *)
(***************************************************************************)
\* the record carries a date suggestion
CarriesDate(r) == "date" \in DOMAIN r.suggestions

\* the positions of t where two digits, a dot, two digits, a dot and two
\* digits stand
DottedAt(t) ==
    {i \in 1..Len(t) :
        /\ i + 7 <= Len(t)
        /\ \A j \in {0, 1, 3, 4, 6, 7} : IsDigit(Ch(t, i + j))
        /\ Ch(t, i + 2) = "." /\ Ch(t, i + 5) = "."}

\* the matches <<start, month length, day length>> of one or two digits, a
\* slash, one or two digits, a slash and at least two digits
SlashedAt(t) ==
    {m \in (1..Len(t)) \X (1..2) \X (1..2) :
        /\ \A j \in 0..(m[2] - 1) : IsDigit(Ch(t, m[1] + j))
        /\ Ch(t, m[1] + m[2]) = "/"
        /\ \A j \in 1..m[3] : IsDigit(Ch(t, m[1] + m[2] + j))
        /\ Ch(t, m[1] + m[2] + m[3] + 1) = "/"
        /\ \A j \in 2..3 : IsDigit(Ch(t, m[1] + m[2] + m[3] + j))}

\* the positions of t where YYYY-MM-DD stands
IsoShapedAt(t) ==
    {i \in 1..Len(t) :
        /\ i + 9 <= Len(t)
        /\ \A j \in {0, 1, 2, 3, 5, 6, 8, 9} : IsDigit(Ch(t, i + j))
        /\ Ch(t, i + 4) = "-" /\ Ch(t, i + 7) = "-"}

\* one or two digits as two
TwoDigits(d) == IF Len(d) = 1 THEN "0" \o d ELSE d

\* the longest run of two to four digits that starts at position i
YearText(t, i) ==
    Sub(t, i, Max({i + k : k \in {k \in 1..3 : \A j \in 0..k : IsDigit(Ch(t, i + j))}}))

\* year, month and day as the corrector writes them; a year of two digits
\* is a year of the 2000s
MonthFirst(month, day, year) ==
    (IF Len(year) = 2 THEN "20" \o year ELSE year)
        \o "-" \o TwoDigits(month) \o "-" \o TwoDigits(day)

\* the leftmost slashed match of t
FirstSlashed(t) == CHOOSE m \in SlashedAt(t) : \A o \in SlashedAt(t) : m[1] <= o[1]

\* the date the title yields under the ordered patterns of the corrector,
\* None when it yields none
TitleYields(t) ==
    IF DottedAt(t) # {}
    THEN MonthFirst(Sub(t, Min(DottedAt(t)), Min(DottedAt(t)) + 1),
                    Sub(t, Min(DottedAt(t)) + 3, Min(DottedAt(t)) + 4),
                    Sub(t, Min(DottedAt(t)) + 6, Min(DottedAt(t)) + 7))
    ELSE IF SlashedAt(t) # {}
    THEN MonthFirst(Sub(t, FirstSlashed(t)[1], FirstSlashed(t)[1] + FirstSlashed(t)[2] - 1),
                    Sub(t, FirstSlashed(t)[1] + FirstSlashed(t)[2] + 1,
                        FirstSlashed(t)[1] + FirstSlashed(t)[2] + FirstSlashed(t)[3]),
                    YearText(t, FirstSlashed(t)[1] + FirstSlashed(t)[2] + FirstSlashed(t)[3] + 2))
    ELSE IF IsoShapedAt(t) # {}
    THEN Sub(t, Min(IsoShapedAt(t)), Min(IsoShapedAt(t)) + 9)
    ELSE None

\* C22: after the corrector's pass every record that carried a date
\* suggestion suggests the date its title yields under the corrector's
\* ordered patterns, and keeps its suggestion when the title yields none.
C22_TitleDateOverwrites ==
    pc = "corrected" =>
        /\ Len(report) = Len(issues)
        /\ \A n \in 1..Len(issues) :
                CarriesDate(issues[n]) =>
                    /\ CarriesDate(report[n])
                    /\ report[n].suggestions["date"] =
                            (IF TitleYields(issues[n].title) # None
                             THEN TitleYields(issues[n].title)
                             ELSE issues[n].suggestions["date"])

C22_Witness ==
    /\ pc = "corrected"
    /\ Len(issues) = 1
    /\ issues[1].title = "Concert on 6/14/99"
    /\ CarriesDate(issues[1])
    /\ issues[1].suggestions["date"] = "1999-06-14"
    /\ report[1].suggestions["date"] = "2099-06-14"

\* everything of a record but the date entry of its suggestions is the same
\* in a and b, and b has a date suggestion exactly when a has one
SameButDate(a, b) ==
    /\ b.identifier = a.identifier
    /\ b.title = a.title
    /\ b.current = a.current
    /\ b.issues = a.issues
    /\ DOMAIN b.suggestions = DOMAIN a.suggestions
    /\ \A k \in DOMAIN a.suggestions \ {"date"} : b.suggestions[k] = a.suggestions[k]

\* C23: a pass of the corrector keeps the number and order of the records
\* and, in every record, everything but the value of a date suggestion that
\* was already there; it adds no date suggestion.
C23_CorrectorFrame ==
    [][(pc = "saved" /\ pc' = "corrected") =>
            /\ Len(report') = Len(report)
            /\ \A n \in 1..Len(report) : SameButDate(report[n], report'[n])
            /\ UNCHANGED <<issues, items, log, mismatches>>]_vars

C23_Witness ==
    /\ pc = "corrected"
    /\ Len(report) = 2
    /\ \E n \in 1..2, m \in 1..2 :
        /\ CarriesDate(issues[n])
        /\ report[n].suggestions["date"] # issues[n].suggestions["date"]
        /\ "band" \in DOMAIN report[n].suggestions
        /\ ~CarriesDate(issues[m])
        /\ ~CarriesDate(report[m])
        /\ TitleYields(report[m].title) # None

\* the Mismatch entries the audit has emitted
Emitted == IF mismatches = None THEN <<>> ELSE mismatches

\* the date the auditor reads in the identifier of a record
IdDate(r) == parse_date_from_identifier(r.identifier)

\* the date the auditor reads in the title of a record
TitleDate(r) == parse_date_from_title(r.title)

\* both dates exist and differ
Disagree(r) == IdDate(r) # None /\ TitleDate(r) # None /\ IdDate(r) # TitleDate(r)

\* the entry m is the Mismatch of the record r
MismatchFor(m, r) ==
    /\ m.identifier = r.identifier
    /\ m.title = r.title
    /\ m.identifier_date = IdDate(r)
    /\ m.title_date = TitleDate(r)

\* C24: after an audit, whatever the fetches answered, the emitted entries
\* are, in order, the Mismatches of exactly the examined records whose
\* identifier date and title date both exist and differ, each with those
\* two dates.
C24_MismatchIffDisagree ==
    pc = "audited" =>
        /\ Len(Emitted) = Cardinality({n \in 1..Len(report) : Disagree(report[n])})
        /\ \A n \in 1..Len(report) :
                Disagree(report[n]) <=>
                    \E k \in 1..Len(Emitted) : MismatchFor(Emitted[k], report[n])
        /\ \A k \in 1..Len(Emitted) :
                /\ Emitted[k].identifier_date # Emitted[k].title_date
                /\ \E n \in 1..Len(report) : MismatchFor(Emitted[k], report[n])

C24_Witness ==
    /\ pc = "audited"
    /\ Len(report) = 2
    /\ Len(Emitted) = 2
    /\ Emitted[1].current_archive_date = "Error fetching"
    /\ \E k \in 1..2 :
        /\ Emitted[k].identifier = "01.20.12_Thou"
        /\ Emitted[k].title = "Thou @ The Che Cafe on 01.12.12"
        /\ Emitted[k].identifier_date = "2012-01-20"
        /\ Emitted[k].title_date = "2012-01-12"

\* C25: an audit sends no update request and leaves the report, with every
\* suggestion in it, and the analyzer's records as they were; it writes
\* only the Mismatch entries.
C25_AuditReadOnly ==
    [][(pc # "audited" /\ pc' = "audited") =>
            /\ report' = report
            /\ issues' = issues
            /\ log' = log
            /\ UNCHANGED <<items, script, cursor, success_count, error_count>>]_vars

C25_Witness ==
    /\ pc = "audited"
    /\ log = <<>>
    /\ Len(report) = 1
    /\ Len(Emitted) = 1
    /\ Disagree(report[1])
    /\ CarriesDate(report[1])
    /\ report[1].suggestions["date"] = "2016-02-28"
    /\ Emitted[1].title_date = "2012-01-05"
    /\ Emitted[1].identifier_date = "2012-01-20"

(***************************************************************************)
(* The IssueRecord invariant, checked under SpecDetect.                    *)
(***************************************************************************)
\* the number of date tags among the issue tags of a record
DateTags(r) == Cardinality(Tags(r) \cap {"missing_date", "bad_date_format"})

\* C26: every IssueRecord found has an issue tag; it suggests a band
\* exactly when missing_band is flagged, a venue exactly when missing_venue
\* is flagged, and a date exactly when one of missing_date and
\* bad_date_format is flagged; the two date tags never come together.
C26_IssueRecordInvariant ==
    pc = "analyzed" =>
        \A n \in 1..Len(issues) :
            /\ Len(issues[n].issues) >= 1
            /\ ("band" \in DOMAIN issues[n].suggestions) <=> ("missing_band" \in Tags(issues[n]))
            /\ ("venue" \in DOMAIN issues[n].suggestions) <=> ("missing_venue" \in Tags(issues[n]))
            /\ ("date" \in DOMAIN issues[n].suggestions) <=> (DateTags(issues[n]) = 1)
            /\ DateTags(issues[n]) <= 1

C26_Witness ==
    /\ pc = "analyzed"
    /\ Len(items) = 2
    /\ Len(issues) = 1
    /\ issues[1].issues = <<"missing_band", "bad_date_format">>
    /\ DOMAIN issues[1].suggestions = {"band", "date"}

(***************************************************************************)
(* Properties of detection followed by correction, checked under           *)
(* SpecReview.                                                             *)
(***************************************************************************)
\* C27: after detection and the corrector's pass every date suggestion of
\* the report has the shape YYYY-MM-DD.
C27_CanonicalDateSuggestions ==
    pc = "corrected" =>
        \A n \in 1..Len(report) :
            CarriesDate(report[n]) => IsCanonicalShape(report[n].suggestions["date"])

\* C28: for a title in which both the detector's scanner and the
\* corrector's parser find a date, the two dates are the same.
C28_TitleParsersAgree ==
    pc = "corrected" =>
        \A n \in 1..Len(report) :
            (/\ extract_date_from_title(report[n].title) # None
             /\ fix_parse_date_from_title(report[n].title) # None)
                => extract_date_from_title(report[n].title)
                        = fix_parse_date_from_title(report[n].title)

(***************************************************************************)
(* The accounting of a batch, checked under SpecRun.                       *)
(***************************************************************************)
\* the records the loop has finished with
Processed == IF cursor = 0 THEN 0 ELSE cursor - 1

\* the records of the batch that have something to update
Updatable == {n \in 1..Len(Batch) : DOMAIN Batch[n].suggestions # {}}

\* the positions of the log where an item was found unchanged
Unchanged == {i \in 1..Len(log) : log[i].ev = "unchanged"}

\* the requests that succeeded
Succeeded == {i \in Responses : log[i].outcome = "success"}

\* when the entry was logged the item held every suggested value already
AllCorrect(e) ==
    /\ e.ev \in {"request", "unchanged"}
    /\ \A f \in DOMAIN Batch[e.n].suggestions :
            f \in DOMAIN e.live /\ e.live[f] = Batch[e.n].suggestions[f]

\* no request for the n-th record has failed
NotCountedFailure(n) ==
    \A j \in Responses : log[j].n = n => log[j].outcome = "success"

\* every finished record is counted once, and at the end all are
CountedOnce ==
    /\ success_count + error_count = Processed
    /\ success_count = Cardinality(Unchanged) + Cardinality(Succeeded)
    /\ pc = "done" => success_count + error_count = Cardinality(Updatable)

\* C29 as stated: every finished record is counted once, as a success or a
\* failure, at the end the two counters add up to the number of records
\* with something to update, and no item that held every suggested value
\* already is counted as a failure.
C29_AccountingAnyPath ==
    Applying =>
        /\ CountedOnce
        /\ \A i \in 1..Len(log) : AllCorrect(log[i]) => NotCountedFailure(log[i].n)

(***************************************************************************)
(* Properties of the flyer cleanup, checked under SpecFlyersFair.          *)
(***************************************************************************)
\* the positions of the log that are deletes
Deletes == {i \in 1..Len(flyer_log) : flyer_log[i].ev = "delete"}

\* the positions of the log that are listings
Listed == {i \in 1..Len(flyer_log) : flyer_log[i].ev = "list"}

\* the name carries the timestamp marker
HasMarker(filename) ==
    \E i \in 1..(Len(filename) - 26) : SubSeq(filename, i, i + 26) = "T00:00:00Z-flyer_itemimage."

\* the delete at position i is for a file that the listing of its item holds
OfListedFile(i) ==
    \E j \in Listed :
        /\ j < i
        /\ flyer_log[j].n = flyer_log[i].n
        /\ flyer_log[j].outcome = "ok"
        /\ \E k \in 1..Len(flyer_log[j].files) : flyer_log[j].files[k] = flyer_log[i].filename

\* every item of the list has been listed and every marked file of a
\* listing that was had has its delete
AllCleaned ==
    /\ \A n \in 1..Len(identifiers) : \E j \in Listed : flyer_log[j].n = n
    /\ \A j \in Listed : \A k \in 1..Len(flyer_log[j].files) :
            HasMarker(flyer_log[j].files[k]) =>
                \E i \in Deletes : /\ flyer_log[i].n = flyer_log[j].n
                                   /\ flyer_log[i].filename = flyer_log[j].files[k]

\* C30: every delete is for a file of a listed item whose name carries the
\* marker 'T00:00:00Z-flyer_itemimage.', so never for the clean
\* '2016-02-27-flyer_itemimage.jpg'; and a cleanup, whichever listings and
\* deletes fail, ends with every item listed and every marked file of the
\* listings it got sent for deletion.
C30_FlyerCleanupSafety ==
    /\ [](\A i \in Deletes :
            /\ \E n \in 1..Len(identifiers) : identifiers[n] = flyer_log[i].identifier
            /\ OfListedFile(i)
            /\ HasMarker(flyer_log[i].filename)
            /\ flyer_log[i].filename # "2016-02-27-flyer_itemimage.jpg")
    /\ ((pc = "cleaning") ~> (pc = "cleaned" /\ AllCleaned))

C30_Witness ==
    /\ pc = "cleaned"
    /\ Len(identifiers) = 2
    /\ Len(flyer_log) = 4
    /\ flyer_log[1].ev = "list" /\ flyer_log[1].n = 1
    /\ flyer_log[1].files = <<"2016-02-27T00:00:00Z-flyer_itemimage.jpg", "2016-02-27-flyer_itemimage.jpg">>
    /\ flyer_log[2].ev = "delete" /\ flyer_log[2].outcome = "raised"
    /\ flyer_log[3].ev = "list" /\ flyer_log[3].n = 2
    /\ flyer_log[4].ev = "delete" /\ flyer_log[4].outcome = "deleted"
    /\ success_count = 2
    /\ error_count = 1

====
